---- MODULE Spec2Model ----
(***************************************************************************)
(* Model of the pools read-through caches (server route /api/pools/get-all *)
(* and the client PoolsCacheProvider) and of the admin dashboard's batched *)
(* fee claim (claimAllFees).                                               *)
(***************************************************************************)
EXTENDS Integers, Sequences, FiniteSets, TLC

\* ------------------------------------------------------------------------
\* Bounds of the model
\* ------------------------------------------------------------------------
MaxNow == 60001
MaxReq == 2
MaxFees == 3
MaxFeeFetches == 1
MaxClaims == 2

\* ------------------------------------------------------------------------
\* Program constants
\* ------------------------------------------------------------------------
CACHE_DURATION_MS == 60000

\* Amounts by which the clock advances between events: just below the TTL
\* and exactly the TTL, so that ages 59999, 60000 and 1 all occur.
TickSteps == {59999, 60000}

ReqIds == 1..MaxReq
Methods == {"GET", "POST"}

Null == -1
\* error: string | null
NoError == "<null>"

\* what getPoolsByConfig can return: lists of pool addresses
RemoteLists == {<<"B", "A">>}
\* the lists used where a browser is modelled too
BrowserLists == {<<"A">>}

VARIABLES
    now,          \* Date.now()
    cfgOk,        \* RPC_URL && POOL_CONFIG_KEY (module constants of the route)
    cachedData,   \* server: let cachedData
    req,          \* server: the requests being handled, and their responses
    page,         \* client: "closed" or "open" (a document is loaded)
    effects,      \* client: mount effects of the current commit not yet run
    pools,        \* client: useState pools
    loading,      \* client: useState loading
    error,        \* client: useState error
    lastFetch,    \* client: useState lastFetch
    closure,      \* client: the lastFetch captured by the current fetchPools
    localStorage, \* client: the slot 'trenchfun_pools_cache'
    quotaOk,      \* client: localStorage.setItem succeeds (the quota is not used up)
    lastCall,      \* history: what the latest fetchPools invocation did
    capturedAt    \* ghost: when the server stored what the client's state and slot hold

VARIABLES
    fees,            \* admin: useState fees
    feesLoading,     \* admin: useState loading
    feeFetches,      \* admin: fetchFees() calls awaiting their response
    claimingAll,     \* admin: useState claimingAll
    minSolThreshold, \* admin: useState minSolThreshold, in hundredths of a SOL
    batch,           \* admin: the latest claimAllFees call: none, empty, running, done
    batchFees,       \* admin: the fees that call read
    batchThreshold,  \* admin: the minSolThreshold that call read
    poolsWithFees,   \* admin: const poolsWithFees of that call
    pipe,            \* admin: per record of poolsWithFees, how far its claim has got
    successCount,    \* admin: let successCount
    failCount,       \* admin: let failCount
    calls,           \* admin: the draft, sign and submit calls made by that call
    toasts,          \* admin: the notifications shown by that call
    refreshes        \* admin: the fetchFees() calls made by that call

VARIABLES
    claiming,        \* admin: useState claiming (a pool address or null)
    claim,           \* the claimFees() calls: how far each has got, what it called and showed
    creatorClaiming, \* creator tab: useState claiming
    creatorLoading   \* creator tab: useState loading

claimVars == <<claiming, claim, creatorClaiming, creatorLoading>>

VARIABLES
    cards            \* admin: what the last render of the dashboard shows

viewVars == <<cards>>

VARIABLES
    env,             \* server: process.env
    api              \* server: the run of an API handler other than the pools listing

apiVars == <<env, api>>

adminVars == <<fees, feesLoading, feeFetches, claimingAll, minSolThreshold,
               batch, batchFees, batchThreshold, poolsWithFees, pipe,
               successCount, failCount, calls, toasts, refreshes>>

cacheVars == <<now, cfgOk, cachedData, req, page, effects, pools, loading,
               error, lastFetch, closure, localStorage, quotaOk, lastCall,
              capturedAt>>

\* the admin state that a single claim leaves alone
batchVars == <<feeFetches, claimingAll, minSolThreshold, batch, batchFees,
               batchThreshold, poolsWithFees, pipe, successCount, failCount,
               calls, toasts, refreshes>>

\* what the actions of each part leave alone
outsideCache == <<adminVars, claimVars, viewVars, apiVars>>
outsideAdmin == <<cacheVars, claimVars, viewVars, apiVars>>
outsideClaim == <<cacheVars, batchVars, viewVars, apiVars>>
outsideView == <<cacheVars, adminVars, claimVars, apiVars>>
outsideApi == <<cacheVars, adminVars, claimVars, viewVars>>

\* ------------------------------------------------------------------------
\* Server: pages/api/pools/get-all.ts
\* ------------------------------------------------------------------------
NoEntry == [kind |-> "null"]
Entry(p, t) == [kind |-> "entry", pools |-> p, timestamp |-> t]

NoResp == [status |-> 0]
\* st: where the handler of the request is; seenTs, poolsCalls, assetCalls:
\* what it read of the cache and how many remote calls it has made;
\* storedAt (ghost): the timestamp of the entry whose pools it answers with;
\* earlier (ghost): the requests whose getPoolsByConfig query was under way
\* when this one's began; overtaken (ghost): the stored entry comes from a
\* query that began after this one's
FreeSlot == [st |-> "free", owner |-> "none", method |-> "GET",
             seenTs |-> Null, poolsCalls |-> 0, assetCalls |-> 0,
             rawPools |-> <<>>, resp |-> NoResp, storedAt |-> Null,
             earlier |-> {}, overtaken |-> FALSE]

\* the mutants of the freshness test: a TTL compared in seconds, and an
\* inclusive bound
IsFreshSeconds(e, t) == e.kind = "entry" /\ (t - e.timestamp) < 60
IsFreshInclusive(e, t) == e.kind = "entry" /\ (t - e.timestamp) <= CACHE_DURATION_MS
\* cachedData && (now - cachedData.timestamp) < CACHE_DURATION_MS
IsFresh(e, t) == e.kind = "entry" /\ (t - e.timestamp) < CACHE_DURATION_MS

\* the mutant of the age: milliseconds, not seconds
CacheAgeMillis(e, t) == t - e.timestamp
\* Math.floor((now - cachedData.timestamp) / 1000)
CacheAge(e, t) == (t - e.timestamp) \div 1000

HitResponse(e, t) ==
    [status |-> 200, pools |-> e.pools, count |-> Len(e.pools),
     cached |-> TRUE, cacheAge |-> CacheAge(e, t)]

MissResponse(p) ==
    [status |-> 200, pools |-> p, count |-> Len(p), cached |-> FALSE,
     cacheAge |-> Null]

ErrorResponse(code, msg) == [status |-> code, error |-> msg]

\* the record the handler builds for one pool; ok is the outcome of the
\* getAsset lookup (data.result && !data.error, and no exception)
PoolRecord(addr, ok) ==
    [address |-> addr, metadata |-> IF ok THEN "metadata" ELSE "null"]

\* the mutant of the per-pool catch: a pool whose lookup failed is left out
PoolsWithMetadataFound(raw, okSet) ==
    SelectSeq([i \in 1..Len(raw) |-> PoolRecord(raw[i], i \in okSet)],
              LAMBDA rec : rec.metadata # "null")
\* poolsWithMetadata = await Promise.all(pools.map(...))
PoolsWithMetadata(raw, okSet) ==
    [i \in 1..Len(raw) |-> PoolRecord(raw[i], i \in okSet)]

\* the mutant of the cache write: keep an entry that is still fresh
UpdateCacheKeepFresh(old, p, t) == IF IsFresh(old, t) THEN old ELSE Entry(p, t)
\* the mutant of the cache write: the payload is replaced, the timestamp of
\* an existing entry is kept
UpdateCachePayloadOnly(old, p, t) ==
    IF old.kind = "entry" THEN Entry(p, old.timestamp) ELSE Entry(p, t)
\* cachedData = { pools: poolsWithMetadata, timestamp: Date.now() }
UpdateCache(old, p, t) == Entry(p, t)

\* what the handler reads of cachedData at its test: the timestamp, if any
SeenTimestamp(e) == IF e.kind = "entry" THEN e.timestamp ELSE Null

\* the handler of request q is between its query and its cache write
Querying(q) == req[q].st \in {"awaitPools", "awaitMeta"}

\* the slots after the handler of r has left its try block with the response
\* and ghost fields in slot; wrote: it assigned cachedData
Leaves(r, slot, wrote) ==
    [q \in ReqIds |->
        IF q = r THEN [slot EXCEPT !.st = "responded", !.earlier = {},
                                   !.overtaken = FALSE]
        ELSE IF Querying(q)
        THEN [req[q] EXCEPT !.earlier = @ \ {r},
                            !.overtaken = IF wrote THEN q \in req[r].earlier
                                          ELSE @]
        ELSE req[q]]

\* requests are numbered by the lowest number not in use
IsNextFree(r) ==
    /\ req[r].st = "free"
    /\ \A q \in ReqIds : q < r => req[q].st # "free"

\* The synchronous part of handler(req, res), up to its first await, run for
\* a request arriving in slot r.
HandlerStart(r, who, m) ==
    /\ IsNextFree(r)
    /\ LET base == [FreeSlot EXCEPT !.owner = who, !.method = m,
                                    !.seenTs = SeenTimestamp(cachedData)] IN
       req' = [req EXCEPT ![r] =
           IF m # "GET"
           THEN [base EXCEPT !.st = "responded",
                             !.resp = ErrorResponse(405, "Method not allowed")]
           ELSE IF IsFresh(cachedData, now)
           THEN [base EXCEPT !.st = "responded",
                             !.resp = HitResponse(cachedData, now),
                             !.storedAt = cachedData.timestamp]
           ELSE IF ~cfgOk
           THEN [base EXCEPT !.st = "responded",
                             !.resp = ErrorResponse(500, "Server configuration error")]
           ELSE [base EXCEPT !.st = "awaitPools", !.poolsCalls = 1,
                             !.earlier = {q \in ReqIds : Querying(q)}]]
    /\ UNCHANGED cachedData

\* how the handler disposes of a GET arriving now
Disposition(m) ==
    IF m # "GET" THEN "405"
    ELSE IF IsFresh(cachedData, now) THEN "hit"
    ELSE IF ~cfgOk THEN "cfgerr"
    ELSE "miss"

\* the mutant of the catch block: an error invalidates the cache
CacheAfterErrorCleared(old) == NoEntry
\* catch (error) { ... res.status(500) ... }: cachedData is not assigned
CacheAfterError(old) == old

\* a request from some other browser arrives
OtherRequest(r, m) ==
    /\ UNCHANGED outsideCache
    /\ UNCHANGED capturedAt
    /\ HandlerStart(r, "other", m)
    /\ UNCHANGED <<now, quotaOk, cfgOk, page, effects, pools, loading, error,
                   lastFetch, closure, localStorage, lastCall>>

\* await client.state.getPoolsByConfig(...) resolves with raw; the handler
\* then issues one getAsset request per pool (pools.map)
PoolsResolve(r, raw) ==
    /\ UNCHANGED outsideCache
    /\ UNCHANGED capturedAt
    /\ req[r].st = "awaitPools"
    /\ req' = [req EXCEPT ![r].st = "awaitMeta", ![r].rawPools = raw,
                          ![r].assetCalls = Len(raw)]
    /\ UNCHANGED <<now, quotaOk, cfgOk, cachedData, page, effects, pools, loading,
                   error, lastFetch, closure, localStorage, quotaOk, lastCall>>

\* await client.state.getPoolsByConfig(...) throws: the outer catch answers 500
PoolsReject(r) ==
    /\ UNCHANGED outsideCache
    /\ UNCHANGED capturedAt
    /\ req[r].st = "awaitPools"
    /\ req' = Leaves(r, [req[r] EXCEPT
                 !.resp = ErrorResponse(500, "Failed to fetch pools")], FALSE)
    /\ cachedData' = CacheAfterError(cachedData)
    /\ UNCHANGED <<now, quotaOk, cfgOk, page, effects, pools, loading, error,
                   lastFetch, closure, localStorage, lastCall>>

\* Promise.all settles (okSet: the pools whose metadata lookup succeeded, one
\* of the outcomes okSets); the handler writes the cache and answers 200
MetaSettle(r, okSets) ==
    /\ UNCHANGED outsideCache
    /\ UNCHANGED capturedAt
    /\ req[r].st = "awaitMeta"
    /\ \E okSet \in okSets :
         LET p == PoolsWithMetadata(req[r].rawPools, okSet) IN
         /\ cachedData' = UpdateCache(cachedData, p, now)
         /\ req' = Leaves(r, [req[r] EXCEPT !.resp = MissResponse(p),
                                             !.storedAt = now], TRUE)
    /\ UNCHANGED <<now, quotaOk, cfgOk, page, effects, pools, loading, error,
                   lastFetch, closure, localStorage, lastCall>>

\* the other browser receives its response
OtherReceive(r) ==
    /\ UNCHANGED outsideCache
    /\ UNCHANGED capturedAt
    /\ req[r].owner = "other"
    /\ req[r].st = "responded"
    /\ req' = [req EXCEPT ![r] = FreeSlot]
    /\ UNCHANGED <<now, quotaOk, cfgOk, cachedData, page, effects, pools, loading,
                   error, lastFetch, closure, localStorage, quotaOk, lastCall>>

\* ------------------------------------------------------------------------
\* Client: contexts/PoolsCacheProvider.tsx and pages/all-tokens.tsx
\* ------------------------------------------------------------------------
CLIENT_CACHE_DURATION_MS == 60000

NoSlot == [kind |-> "none"]
Corrupt == [kind |-> "corrupt"]
\* JSON.stringify({ pools, timestamp }) and, read back, JSON.parse of it
Stored(p, t) == [kind |-> "json", pools |-> p, timestamp |-> t]

NoCall == [trigger |-> "none", force |-> FALSE, outcome |-> "none",
           slotFresh |-> FALSE]

\* lastFetch && ...: null and 0 are falsy
Truthy(x) == x # Null /\ x # 0

\* a render is due: the mount effects of the commit have run and the state
\* differs from what the current fetchPools callback captured
RenderPending == effects = {} /\ closure # lastFetch
Settled == effects = {} /\ closure = lastFetch

\* if (now - timestamp < CACHE_DURATION_MS), on a slot that parses
SlotFresh(s, t) == s.kind = "json" /\ t - s.timestamp < CLIENT_CACHE_DURATION_MS

\* the mutant of the skip test: the force flag is not looked at
UseCachedIgnoringForce(force, lf, t) ==
    Truthy(lf) /\ (t - lf) < CLIENT_CACHE_DURATION_MS
\* !forceRefresh && lastFetch && (now - lastFetch) < CACHE_DURATION_MS
UseCached(force, lf, t) ==
    ~force /\ Truthy(lf) /\ (t - lf) < CLIENT_CACHE_DURATION_MS

\* fetchPools(forceRefresh), called from a callback that captured lf, up to
\* its first await
fetchPools(force, lf, trigger) ==
    LET call(o) == [trigger |-> trigger, force |-> force, outcome |-> o,
                    slotFresh |-> SlotFresh(localStorage, now)] IN
    IF UseCached(force, lf, now)
    THEN /\ lastCall' = call("skip")
         /\ UNCHANGED <<cachedData, req, loading, error>>
    ELSE /\ loading' = TRUE
         /\ error' = NoError
         /\ \E r \in ReqIds :
              \/ /\ HandlerStart(r, "client", "GET")
                 /\ lastCall' = call(Disposition("GET"))
              \/ /\ IsNextFree(r)
                 /\ req' = [req EXCEPT ![r] =
                               [FreeSlot EXCEPT !.st = "neterr", !.owner = "client"]]
                 /\ lastCall' = call("neterr")
                 /\ UNCHANGED cachedData

\* the document is (re)loaded: React state starts from its useState initial
\* values, the provider's and the page's mount effects are both due, and the
\* requests of the previous document are nobody's any more (the server goes
\* on handling those it has not answered)
PageLoad ==
    /\ UNCHANGED outsideCache
    /\ capturedAt' = [capturedAt EXCEPT !.pools = Null]
    /\ page' = "open"
    /\ effects' = {"provider", "page"}
    /\ pools' = <<>>
    /\ loading' = FALSE
    /\ error' = NoError
    /\ lastFetch' = Null
    /\ closure' = Null
    /\ lastCall' = NoCall
    /\ req' = [r \in ReqIds |->
                 IF req[r].owner # "client" THEN req[r]
                 ELSE IF req[r].st \in {"neterr", "responded"} THEN FreeSlot
                 ELSE [req[r] EXCEPT !.owner = "other"]]
    /\ UNCHANGED <<now, quotaOk, cfgOk, cachedData, localStorage>>

\* the mutant of the catch of the load: the failure is shown as an error
LoadErrorShown(s, old) ==
    IF s.kind = "corrupt" THEN "Failed to load cache" ELSE old
\* catch (err) { console.error(...) }: error is not set
LoadError(s, old) == old

\* the provider's mount effect: load from localStorage
ProviderLoad ==
    /\ UNCHANGED outsideCache
    /\ "provider" \in effects
    /\ effects' = effects \ {"provider"}
    /\ IF SlotFresh(localStorage, now)
       THEN /\ pools' = localStorage.pools
            /\ lastFetch' = localStorage.timestamp
            /\ capturedAt' = [capturedAt EXCEPT !.pools = capturedAt.slot]
       ELSE UNCHANGED <<pools, lastFetch, capturedAt>>
    /\ error' = LoadError(localStorage, error)
    /\ UNCHANGED <<now, quotaOk, cfgOk, cachedData, req, page, loading,
                   closure, localStorage, lastCall>>

\* the page's mount effect: fetchPools(), with the callback of the first render
PageMount ==
    /\ UNCHANGED outsideCache
    /\ UNCHANGED capturedAt
    /\ "page" \in effects
    /\ effects' = effects \ {"page"}
    /\ fetchPools(FALSE, closure, "mount")
    /\ UNCHANGED <<now, quotaOk, cfgOk, page, pools, lastFetch, closure, localStorage>>

\* lastFetch changed: the provider re-renders, useCallback([lastFetch]) makes
\* a new fetchPools, and the page's effect ([fetchPools]) runs again
Render ==
    /\ UNCHANGED outsideCache
    /\ UNCHANGED capturedAt
    /\ page = "open"
    /\ RenderPending
    /\ closure' = lastFetch
    /\ fetchPools(FALSE, lastFetch, "render")
    /\ UNCHANGED <<now, quotaOk, cfgOk, page, effects, pools, lastFetch, localStorage>>

\* the page is left and entered again by client-side navigation: the provider
\* stays mounted, the page's mount effect runs with the current callback
Remount ==
    /\ UNCHANGED outsideCache
    /\ UNCHANGED capturedAt
    /\ page = "open"
    /\ Settled
    /\ fetchPools(FALSE, closure, "remount")
    /\ UNCHANGED <<now, quotaOk, cfgOk, page, effects, pools, lastFetch, closure,
                   localStorage>>

\* <Button onClick={() => fetchPools(true)} disabled={loading}>
Refresh ==
    /\ UNCHANGED outsideCache
    /\ UNCHANGED capturedAt
    /\ page = "open"
    /\ Settled
    /\ ~loading
    /\ fetchPools(TRUE, closure, "refresh")
    /\ UNCHANGED <<now, quotaOk, cfgOk, page, effects, pools, lastFetch, closure,
                   localStorage>>

\* the mutant of the slot write: nothing is written
setItemDropped(old, p, t, ok) == old
\* try { localStorage.setItem(CACHE_KEY, JSON.stringify({ pools, timestamp })) }
\* catch: the slot after the write (ok: the write does not throw)
setItem(old, p, t, ok) == IF ok THEN Stored(p, t) ELSE old

\* await fetch(...) resolved with an OK response; a localStorage.setItem that
\* throws is caught and logged
FetchOk(r) ==
    /\ UNCHANGED outsideCache
    /\ page = "open"
    /\ Settled
    /\ req[r].owner = "client"
    /\ req[r].st = "responded"
    /\ req[r].resp.status = 200
    /\ pools' = req[r].resp.pools
    /\ lastFetch' = now
    /\ localStorage' = setItem(localStorage, req[r].resp.pools, now, quotaOk)
    /\ capturedAt' = [pools |-> req[r].storedAt,
                      slot |-> IF quotaOk THEN req[r].storedAt ELSE capturedAt.slot]
    /\ loading' = FALSE
    /\ req' = [req EXCEPT ![r] = FreeSlot]
    /\ UNCHANGED <<now, quotaOk, cfgOk, cachedData, page, effects, error, closure,
                   lastCall>>

\* await fetch(...) rejected, or the response is not OK: catch, then finally
FetchFail(r) ==
    /\ UNCHANGED outsideCache
    /\ UNCHANGED capturedAt
    /\ page = "open"
    /\ Settled
    /\ req[r].owner = "client"
    /\ \/ req[r].st = "neterr"
       \/ req[r].st = "responded" /\ req[r].resp.status # 200
    /\ error' = IF req[r].st = "neterr" THEN "Failed to fetch"
                ELSE req[r].resp.error
    /\ loading' = FALSE
    /\ req' = [req EXCEPT ![r] = FreeSlot]
    /\ UNCHANGED <<now, quotaOk, cfgOk, cachedData, page, effects, pools, lastFetch,
                   closure, localStorage, lastCall>>

\* time passes (not inside a commit)
Tick(d) ==
    /\ UNCHANGED outsideCache
    /\ UNCHANGED capturedAt
    /\ page = "open" => Settled
    /\ now + d <= MaxNow
    /\ now' = now + d
    /\ UNCHANGED <<quotaOk, cfgOk, cachedData, req, page, effects, pools, loading,
                   error, lastFetch, closure, localStorage, quotaOk, lastCall>>

CacheInit ==
    /\ now = 1
    /\ cfgOk \in BOOLEAN
    /\ cachedData = NoEntry
    /\ req = [r \in ReqIds |-> FreeSlot]
    /\ page = "closed"
    /\ effects = {}
    /\ pools = <<>>
    /\ loading = FALSE
    /\ error = NoError
    /\ lastFetch = Null
    /\ closure = Null
    /\ localStorage \in {NoSlot, Corrupt}
    /\ quotaOk \in BOOLEAN
    /\ lastCall = NoCall
    /\ capturedAt = [pools |-> Null, slot |-> Null]

\* ------------------------------------------------------------------------
\* Admin dashboard: pages/admin.tsx
\* ------------------------------------------------------------------------
\* decimal strings, as sequences of digits
Str0 == <<0>>
Str50M == <<5, 0, 0, 0, 0, 0, 0, 0>>
Str100M == <<1, 0, 0, 0, 0, 0, 0, 0, 0>>
Str200M == <<2, 0, 0, 0, 0, 0, 0, 0, 0>>
Str900M == <<9, 0, 0, 0, 0, 0, 0, 0, 0>>

\* type FeeMetrics, with partner quote fee q and every other amount o
FeeMetrics(addr, q, o) ==
    [poolAddress |-> addr, partnerBaseFee |-> o, partnerQuoteFee |-> q,
     creatorBaseFee |-> o, creatorQuoteFee |-> o,
     totalTradingBaseFee |-> o, totalTradingQuoteFee |-> o]

\* what /api/admin/get-fees can answer: the first n records of one of these
MixedFees == <<FeeMetrics("A", Str50M, Str900M), FeeMetrics("B", Str200M, Str0),
               FeeMetrics("C", Str100M, Str100M), FeeMetrics("D", Str0, Str900M)>>
ZeroFees == <<FeeMetrics("A", Str0, Str0), FeeMetrics("B", Str0, Str0),
              FeeMetrics("C", Str0, Str0), FeeMetrics("D", Str0, Str0)>>
FeeLists ==
    {SubSeq(l, 1, n) : l \in {MixedFees, ZeroFees}, n \in 0..MaxFees}

\* the values of the threshold input, in hundredths of a SOL: 0 and 0.1
Thresholds == {0, 10}

\* new BN(str): the number a decimal string denotes
RECURSIVE BN(_)
BN(str) ==
    IF str = <<>> THEN 0
    ELSE BN(SubSeq(str, 1, Len(str) - 1)) * 10 + str[Len(str)]

\* new BN(Math.floor(minSolThreshold * 1e9)), for a threshold of c hundredths
\* of a SOL (the product is exact for the values of Thresholds)
MIN_SOL_THRESHOLD(c) == c * (1000000000 \div 100)

\* the mutant of the selection test: strictly greater
IsEligibleStrict(f, th) == BN(f.partnerQuoteFee) > th
\* quoteFee.gte(MIN_SOL_THRESHOLD)
IsEligible(f, th) == BN(f.partnerQuoteFee) >= th

\* fees.filter(f => ...)
RECURSIVE FilterFees(_, _)
FilterFees(fs, th) ==
    IF fs = <<>> THEN <<>>
    ELSE IF IsEligible(Head(fs), th)
    THEN <<Head(fs)>> \o FilterFees(Tail(fs), th)
    ELSE FilterFees(Tail(fs), th)

\* the mutant of the test: the loop is entered whatever was selected
IsNothingToClaimNever(sel) == FALSE
\* poolsWithFees.length === 0
IsNothingToClaim(sel) == Len(sel) = 0

Toast(kind, text, n) == [kind |-> kind, text |-> text, n |-> n]

\* the mutant of the loop: every record's claim is started at once
FirstStartedAll(n) == 1..n
\* for (const feeMetric of poolsWithFees): the records whose claim is started
\* when the loop is entered
FirstStarted(n) == {1}

\* the mutant of the catch: a failure leaves the loop
NextAfterAbort(k, n, ok) == IF ok THEN k + 1 ELSE n + 1
\* the record the loop goes to after record k, whether its claim succeeded or
\* was caught failing
NextAfter(k, n, ok) == k + 1

\* the mutant of the refresh: only when something was claimed
RefreshesAfterSuccess(sc, fc) == sc > 0
\* whether fetchFees() is called after the loop, given the two tallies
RefreshesAfter(sc, fc) == TRUE

\* the two summary notifications after the loop
Summary(sc, fc) ==
    (IF sc > 0 THEN <<Toast("success", "Successfully claimed fees", sc)>> ELSE <<>>)
    \o (IF fc > 0 THEN <<Toast("error", "Failed to claim fees", fc)>> ELSE <<>>)

InFlight == {k \in 1..Len(pipe) : pipe[k] \in {"draft", "sign", "submit"}}

\* fetchFees() from the mount effect or the Refresh Data button
RefreshData ==
    /\ UNCHANGED outsideAdmin
    /\ ~feesLoading
    /\ feeFetches < MaxFeeFetches
    /\ feesLoading' = TRUE
    /\ feeFetches' = feeFetches + 1
    /\ UNCHANGED <<fees, claimingAll, minSolThreshold, batch, batchFees,
                   batchThreshold, poolsWithFees, pipe, successCount,
                   failCount, calls, toasts, refreshes>>

\* a fetchFees() gets its answer: setFees(data.fees), finally setLoading(false)
FeesLoaded(list) ==
    /\ UNCHANGED outsideAdmin
    /\ feeFetches > 0
    /\ fees' = list
    /\ feesLoading' = FALSE
    /\ feeFetches' = feeFetches - 1
    /\ UNCHANGED <<claimingAll, minSolThreshold, batch, batchFees,
                   batchThreshold, poolsWithFees, pipe, successCount,
                   failCount, calls, toasts, refreshes>>

\* a fetchFees() fails: catch, finally setLoading(false)
FeesFailed ==
    /\ UNCHANGED outsideAdmin
    /\ feeFetches > 0
    /\ feesLoading' = FALSE
    /\ feeFetches' = feeFetches - 1
    /\ UNCHANGED <<fees, claimingAll, minSolThreshold, batch, batchFees,
                   batchThreshold, poolsWithFees, pipe, successCount,
                   failCount, calls, toasts, refreshes>>

\* onChange of the threshold input
SetThreshold(c) ==
    /\ UNCHANGED outsideAdmin
    /\ c # minSolThreshold
    /\ minSolThreshold' = c
    /\ UNCHANGED <<fees, feesLoading, feeFetches, claimingAll, batch,
                   batchFees, batchThreshold, poolsWithFees, pipe,
                   successCount, failCount, calls, toasts, refreshes>>

\* claimAllFees(), from the Claim All button (disabled while claimingAll or
\* loading or without fees; rendered only with a connected wallet), up to its
\* first await
ClaimAllClick ==
    /\ UNCHANGED outsideAdmin
    /\ ~claimingAll
    /\ ~feesLoading
    /\ Len(fees) # 0
    /\ feeFetches <= MaxFeeFetches
    /\ batchFees' = fees
    /\ batchThreshold' = minSolThreshold
    /\ successCount' = 0
    /\ failCount' = 0
    /\ refreshes' = 0
    /\ LET sel == FilterFees(fees, MIN_SOL_THRESHOLD(minSolThreshold))
           n == Len(sel)
       IN /\ poolsWithFees' = sel
          /\ IF IsNothingToClaim(sel)
             THEN /\ toasts' = <<Toast("info", "No fees to claim", minSolThreshold)>>
                  /\ batch' = "empty"
                  /\ pipe' = <<>>
                  /\ calls' = <<>>
                  /\ UNCHANGED claimingAll
             ELSE /\ toasts' = <<Toast("info", "Claiming fees", n)>>
                  /\ batch' = "running"
                  /\ claimingAll' = TRUE
                  /\ pipe' = [k \in 1..n |->
                                IF k \in FirstStarted(n) THEN "draft" ELSE "todo"]
                  /\ calls' = [k \in 1..Cardinality(FirstStarted(n) \cap 1..n) |->
                                 <<"draft", k>>]
    /\ UNCHANGED <<fees, feesLoading, feeFetches, minSolThreshold>>

\* the draft request of record k is answered OK and deserialized:
\* signTransaction is called
DraftOk(k) ==
    /\ UNCHANGED outsideAdmin
    /\ k \in InFlight
    /\ pipe[k] = "draft"
    /\ pipe' = [pipe EXCEPT ![k] = "sign"]
    /\ calls' = Append(calls, <<"sign", k>>)
    /\ UNCHANGED <<fees, feesLoading, feeFetches, claimingAll,
                   minSolThreshold, batch, batchFees, batchThreshold,
                   poolsWithFees, successCount, failCount, toasts,
                   refreshes>>

\* the wallet signs the transaction of record k: it is sent
SignOk(k) ==
    /\ UNCHANGED outsideAdmin
    /\ k \in InFlight
    /\ pipe[k] = "sign"
    /\ pipe' = [pipe EXCEPT ![k] = "submit"]
    /\ calls' = Append(calls, <<"submit", k>>)
    /\ UNCHANGED <<fees, feesLoading, feeFetches, claimingAll,
                   minSolThreshold, batch, batchFees, batchThreshold,
                   poolsWithFees, successCount, failCount, toasts,
                   refreshes>>

\* record k's claim has ended with result: the tally, then the next record's
\* draft request or, after the last, the end of the call: setClaimingAll(false),
\* the summary, fetchFees()
Settle(k, result, ok) ==
    LET n == Len(poolsWithFees)
        nx == NextAfter(k, n, ok)
        settled == [pipe EXCEPT ![k] = result]
        sc == IF ok THEN successCount + 1 ELSE successCount
        fc == IF ok THEN failCount ELSE failCount + 1
        shown == IF ok
                 THEN Append(toasts, Toast("success", "Claimed fees from pool", k))
                 ELSE toasts
    IN /\ successCount' = sc
       /\ failCount' = fc
       /\ IF nx <= n
          THEN /\ pipe' = [settled EXCEPT ![nx] = "draft"]
               /\ calls' = Append(calls, <<"draft", nx>>)
               /\ toasts' = shown
               /\ UNCHANGED <<claimingAll, batch, feesLoading, feeFetches,
                              refreshes>>
          ELSE /\ pipe' = settled
               /\ calls' = calls
               /\ toasts' = shown \o Summary(sc, fc)
               /\ claimingAll' = FALSE
               /\ batch' = "done"
               /\ IF RefreshesAfter(sc, fc)
                  THEN /\ feesLoading' = TRUE
                       /\ feeFetches' = feeFetches + 1
                       /\ refreshes' = refreshes + 1
                  ELSE UNCHANGED <<feesLoading, feeFetches, refreshes>>
       /\ UNCHANGED <<fees, minSolThreshold, batchFees, batchThreshold,
                      poolsWithFees>>

\* the draft request of record k throws or is not OK
DraftFail(k) ==
    /\ UNCHANGED outsideAdmin
    /\ k \in InFlight
    /\ pipe[k] = "draft"
    /\ Settle(k, "failDraft", FALSE)

\* signTransaction rejects for record k
SignFail(k) ==
    /\ UNCHANGED outsideAdmin
    /\ k \in InFlight
    /\ pipe[k] = "sign"
    /\ Settle(k, "failSign", FALSE)

\* the submit request of record k throws or is not OK
SubmitFail(k) ==
    /\ UNCHANGED outsideAdmin
    /\ k \in InFlight
    /\ pipe[k] = "submit"
    /\ Settle(k, "failSubmit", FALSE)

\* the submit request of record k is answered OK
SubmitOk(k) ==
    /\ UNCHANGED outsideAdmin
    /\ k \in InFlight
    /\ pipe[k] = "submit"
    /\ Settle(k, "ok", TRUE)

AdminInit ==
    /\ fees = <<>>
    /\ feesLoading = FALSE
    /\ feeFetches = 0
    /\ claimingAll = FALSE
    /\ minSolThreshold = 10
    /\ batch = "none"
    /\ batchFees = <<>>
    /\ batchThreshold = 10
    /\ poolsWithFees = <<>>
    /\ pipe = <<>>
    /\ successCount = 0
    /\ failCount = 0
    /\ calls = <<>>
    /\ toasts = <<>>
    /\ refreshes = 0

Records == 1..(MaxFees + 1)

AdminNext ==
    \/ RefreshData
    \/ \E list \in FeeLists : FeesLoaded(list)
    \/ FeesFailed
    \/ \E c \in Thresholds : SetThreshold(c)
    \/ ClaimAllClick
    \/ \E k \in Records : DraftOk(k)
    \/ \E k \in Records : DraftFail(k)
    \/ \E k \in Records : SignOk(k)
    \/ \E k \in Records : SignFail(k)
    \/ \E k \in Records : SubmitOk(k)
    \/ \E k \in Records : SubmitFail(k)

\* the mutant of a hung call: the batch is given up and the control released
HangReleases(k) ==
    /\ UNCHANGED outsideAdmin
    /\ k \in InFlight
    /\ pipe' = [pipe EXCEPT ![k] = "hung"]
    /\ claimingAll' = FALSE
    /\ UNCHANGED <<fees, feesLoading, feeFetches, minSolThreshold, batch,
                   batchFees, batchThreshold, poolsWithFees, successCount,
                   failCount, calls, toasts, refreshes>>

\* the awaited call of record k (the draft request, signTransaction or the
\* submit request) never returns: there is no timeout and no cancellation,
\* so the loop stays at its await
Hang(k) ==
    /\ UNCHANGED outsideAdmin
    /\ k \in InFlight
    /\ pipe' = [pipe EXCEPT ![k] = "hung"]
    /\ UNCHANGED <<fees, feesLoading, feeFetches, claimingAll,
                   minSolThreshold, batch, batchFees, batchThreshold,
                   poolsWithFees, successCount, failCount, calls, toasts,
                   refreshes>>

\* an awaited call of the batch returns, with a value or with an exception
Returns ==
    \E k \in Records :
        \/ DraftOk(k) \/ DraftFail(k)
        \/ SignOk(k) \/ SignFail(k)
        \/ SubmitOk(k) \/ SubmitFail(k)

\* disabled={claimingAll || loading || fees.length === 0}
ClaimAllDisabled == claimingAll \/ feesLoading \/ Len(fees) = 0

\* the dashboard's fetch and the batch, whose calls may hang
BatchNext ==
    \/ RefreshData
    \/ \E list \in FeeLists : FeesLoaded(list)
    \/ ClaimAllClick
    \/ \E k \in Records : DraftOk(k)
    \/ \E k \in Records : DraftFail(k)
    \/ \E k \in Records : SignOk(k)
    \/ \E k \in Records : SignFail(k)
    \/ \E k \in Records : SubmitOk(k)
    \/ \E k \in Records : SubmitFail(k)
    \/ \E k \in Records : Hang(k)

\* ------------------------------------------------------------------------
\* Fee totals of the dashboard: pages/admin.tsx
\* ------------------------------------------------------------------------
\* a BN as its decimal digits; new BN(str) of a decimal string and
\* BN.toString() go between the two forms
Reverse(str) == [i \in 1..Len(str) |-> str[Len(str) + 1 - i]]

\* the mutant of the addition: carries are lost
CarryDropped(t) == 0
\* the carry out of a digit position
Carry(t) == t \div 10

\* addition from the lowest digit up
RECURSIVE AddFromLowest(_, _, _)
AddFromLowest(a, b, carry) ==
    IF a = <<>> /\ b = <<>>
    THEN IF carry = 0 THEN <<>> ELSE <<carry>>
    ELSE LET x == IF a = <<>> THEN 0 ELSE Head(a)
             y == IF b = <<>> THEN 0 ELSE Head(b)
             t == x + y + carry
         IN <<t % 10>> \o AddFromLowest(IF a = <<>> THEN a ELSE Tail(a),
                                        IF b = <<>> THEN b ELSE Tail(b),
                                        Carry(t))

\* a.add(b)
BNAdd(a, b) == Reverse(AddFromLowest(Reverse(a), Reverse(b), 0))

\* the mutant of the reducer: the sum so far is forgotten
AccumulateLast(sum, amount) == amount
\* (sum, f) => sum.add(new BN(f.field))
Accumulate(sum, amount) == BNAdd(sum, amount)

\* fees.reduce(..., new BN(0)) over one field
RECURSIVE Reduce(_, _, _)
Reduce(fs, field, sum) ==
    IF fs = <<>> THEN sum
    ELSE Reduce(Tail(fs), field, Accumulate(sum, Head(fs)[field]))

\* the four totals the dashboard computes
Totals(fs) ==
    [partnerQuoteFee |-> Reduce(fs, "partnerQuoteFee", Str0),
     partnerBaseFee  |-> Reduce(fs, "partnerBaseFee", Str0),
     creatorQuoteFee |-> Reduce(fs, "creatorQuoteFee", Str0),
     creatorBaseFee  |-> Reduce(fs, "creatorBaseFee", Str0)]

\* 2^52 and 2^53
Two52 == <<4, 5, 0, 3, 5, 9, 9, 6, 2, 7, 3, 7, 0, 4, 9, 6>>
Two53 == <<9, 0, 0, 7, 1, 9, 9, 2, 5, 4, 7, 4, 0, 9, 9, 2>>
Str2p53plus1 == <<9, 0, 0, 7, 1, 9, 9, 2, 5, 4, 7, 4, 0, 9, 9, 3>>
Str1 == <<1>>

\* a < b, for decimal digits without leading zeros
RECURSIVE DigitsLess(_, _)
DigitsLess(a, b) ==
    IF Len(a) # Len(b) THEN Len(a) < Len(b)
    ELSE IF a = <<>> THEN FALSE
    ELSE IF a[1] # b[1] THEN a[1] < b[1]
    ELSE DigitsLess(Tail(a), Tail(b))

\* BN.toNumber() asserts that the value has at most 53 bits
FitsNumber(n) == DigitsLess(n, Two53)

Zeros(k) == [i \in 1..k |-> 0]

\* (x / 1e9).toFixed(9), where the quotient rounds to the digits of x
FormatExact(n) ==
    LET padded == IF Len(n) < 10 THEN Zeros(10 - Len(n)) \o n ELSE n
    IN [whole |-> SubSeq(padded, 1, Len(padded) - 9),
        frac |-> SubSeq(padded, Len(padded) - 8, Len(padded))]

Throws == [whole |-> <<>>, frac |-> <<>>]
Rounded == [whole |-> <<>>, frac |-> <<0>>]

\* formatSol(lamportsStr): the division is exact to nine decimals below
\* 2^52; from there to 2^53 the last decimals may be rounded
formatSol(lamportsStr) ==
    IF ~FitsNumber(lamportsStr) THEN Throws
    ELSE IF DigitsLess(lamportsStr, Two52) THEN FormatExact(lamportsStr)
    ELSE Rounded

\* the amounts one render formats: three totals, and four amounts per row
Formatted(fs) ==
    {formatSol(Totals(fs).partnerQuoteFee), formatSol(Totals(fs).partnerBaseFee),
     formatSol(Totals(fs).creatorQuoteFee)}
    \cup {formatSol(fs[i][field]) :
            i \in 1..Len(fs),
            field \in {"partnerQuoteFee", "partnerBaseFee",
                       "creatorQuoteFee", "creatorBaseFee"}}

\* what a render with these fees shows: the three cards, or nothing when a
\* formatSol call throws
View(fs) ==
    IF Throws \in Formatted(fs)
    THEN [st |-> "error"]
    ELSE [st |-> "shown",
          partnerQuoteFee |-> formatSol(Totals(fs).partnerQuoteFee),
          partnerBaseFee |-> formatSol(Totals(fs).partnerBaseFee),
          creatorQuoteFee |-> formatSol(Totals(fs).creatorQuoteFee)]

\* React renders the dashboard again after the fees have changed
DashboardRender ==
    /\ UNCHANGED outsideView
    /\ cards.st # "error"
    /\ cards # View(fees)
    /\ cards' = View(fees)

\* the fee lists used where the totals are looked at: those of FeeLists,
\* and amounts of 2^53 and more
HugeFees == <<FeeMetrics("A", Str2p53plus1, Str0), FeeMetrics("B", Str1, Str0)>>
TotalsFeeLists == FeeLists \cup {SubSeq(HugeFees, 1, n) : n \in 1..2}

ViewInit == cards = View(<<>>)

\* the dashboard's fetches and renders
TotalsNext ==
    \/ RefreshData
    \/ \E list \in TotalsFeeLists : FeesLoaded(list)
    \/ FeesFailed
    \/ \E c \in Thresholds : SetThreshold(c)
    \/ DashboardRender

\* ------------------------------------------------------------------------
\* A single claim: claimFees of pages/admin.tsx and of the creator fees tab
\* ------------------------------------------------------------------------
ClaimIds == 1..MaxClaims
Kinds == {"admin", "creator"}
PipelineSteps == <<"draft", "sign", "submit">>
NoPool == "<null>"

\* the message of the error thrown when fetch() itself rejects
NetworkError == "Failed to fetch"
\* error.error || '...' for a response that is not OK
DraftError(kind) ==
    IF kind = "admin" THEN "Failed to create claim transaction"
    ELSE "Failed to create creator claim transaction"
SendError == "Failed to send transaction"
\* the message of the wallet's error when the user declines
WalletError == "User rejected the request"
\* what is thrown is not an Error (a wallet may reject with a plain value)
NonError == "<not an Error>"

\* the messages of the errors a step can throw
Messages(kind, step) ==
    IF step = "draft" THEN {NetworkError, DraftError(kind)}
    ELSE IF step = "sign" THEN {WalletError, NonError}
    ELSE {NetworkError, SendError}

ClaimToast(kind, title, description) ==
    [kind |-> kind, title |-> title, description |-> description]

\* toast.error(title, ...) of the catch
ErrorTitle(kind) ==
    IF kind = "admin" THEN "Failed to claim fees"
    ELSE "Failed to claim creator fees"

\* toast.success(title, ...) after the submit
SuccessTitle(kind) ==
    IF kind = "admin" THEN "Fees claimed successfully!"
    ELSE "Creator fees claimed successfully!"

\* error instanceof Error ? error.message : 'Unknown error'
ErrorDescription(thrown) == IF thrown = NonError THEN "Unknown error" ELSE thrown

NoClaim ==
    [st |-> "idle", kind |-> "admin", pool |-> NoPool, calls |-> <<>>,
     failedAt |-> "none", message |-> "", toasts |-> <<>>]

Running(c) == claim[c].st \in {"draft", "sign", "submit", "refresh"}

\* the calls are numbered as they start: the lowest slot not running
IsNextClaim(c) ==
    /\ ~Running(c)
    /\ \A d \in ClaimIds : d < c => Running(d)

\* !quoteFee.isZero() || !baseFee.isZero()
hasClaimableFees(fee) == BN(fee.partnerQuoteFee) # 0 \/ BN(fee.partnerBaseFee) # 0

\* setClaiming(...) of the finally: null on the dashboard, false on the tab
ClaimingReset(kind) ==
    /\ claiming' = IF kind = "admin" THEN NoPool ELSE claiming
    /\ creatorClaiming' = IF kind = "creator" THEN FALSE ELSE creatorClaiming

\* claimFees(poolAddress) from a row of the dashboard (the rows are rendered
\* while not loading; the button of a pool is disabled without claimable
\* fees and while claiming is that pool), with a wallet that can sign, up to
\* its first await
AdminClaimClick(c, i) ==
    /\ UNCHANGED outsideClaim
    /\ IsNextClaim(c)
    /\ ~feesLoading
    /\ i \in 1..Len(fees)
    /\ hasClaimableFees(fees[i])
    /\ claiming # fees[i].poolAddress
    /\ claiming' = fees[i].poolAddress
    /\ claim' = [claim EXCEPT ![c] =
                   [NoClaim EXCEPT !.st = "draft", !.kind = "admin",
                                   !.pool = fees[i].poolAddress,
                                   !.calls = <<"draft">>]]
    /\ UNCHANGED <<fees, feesLoading, creatorClaiming, creatorLoading>>

\* claimFees() of the creator fees tab (the button is disabled while claiming
\* or loading), with a wallet that can sign and fees loaded
CreatorClaimClick(c) ==
    /\ UNCHANGED outsideClaim
    /\ IsNextClaim(c)
    /\ ~creatorClaiming
    /\ ~creatorLoading
    /\ creatorClaiming' = TRUE
    /\ claim' = [claim EXCEPT ![c] =
                   [NoClaim EXCEPT !.st = "draft", !.kind = "creator",
                                   !.pool = "A", !.calls = <<"draft">>]]
    /\ UNCHANGED <<fees, feesLoading, claiming, creatorLoading>>

\* the mutant of the catch: a failed draft request goes on to the wallet
AfterThrowGoesOn(step) == IF step = "draft" THEN "sign" ELSE "failed"
\* where a call is after one of its steps has thrown
AfterThrow(step) == "failed"

\* a step of call c throws an error with this message: catch, finally
ClaimThrows(c, step, message) ==
    LET to == AfterThrow(step) IN
    /\ UNCHANGED outsideClaim
    /\ claim[c].st = step
    /\ message \in Messages(claim[c].kind, step)
    /\ IF to = "failed"
       THEN /\ claim' = [claim EXCEPT
                   ![c].st = "failed",
                   ![c].failedAt = step,
                   ![c].message = message,
                   ![c].toasts = Append(@, ClaimToast("error",
                                    ErrorTitle(claim[c].kind),
                                    ErrorDescription(message)))]
            /\ ClaimingReset(claim[c].kind)
       ELSE /\ claim' = [claim EXCEPT ![c].st = to,
                                      ![c].failedAt = step,
                                      ![c].message = message,
                                      ![c].calls = Append(@, to)]
            /\ UNCHANGED <<claiming, creatorClaiming>>
    /\ UNCHANGED <<fees, feesLoading, creatorLoading>>

\* the draft response of call c is OK and deserialized: signTransaction
ClaimDraftOk(c) ==
    /\ UNCHANGED outsideClaim
    /\ claim[c].st = "draft"
    /\ claim' = [claim EXCEPT ![c].st = "sign", ![c].calls = Append(@, "sign")]
    /\ UNCHANGED <<fees, feesLoading, claiming, creatorClaiming, creatorLoading>>

\* the wallet has signed for call c: the transaction is sent
ClaimSignOk(c) ==
    /\ UNCHANGED outsideClaim
    /\ claim[c].st = "sign"
    /\ claim' = [claim EXCEPT ![c].st = "submit", ![c].calls = Append(@, "submit")]
    /\ UNCHANGED <<fees, feesLoading, claiming, creatorClaiming, creatorLoading>>

\* the submit response of call c is OK: toast.success, then the fees are
\* fetched again (setLoading(true) of fetchFees or fetchCreatorFees)
ClaimSubmitOk(c) ==
    /\ UNCHANGED outsideClaim
    /\ claim[c].st = "submit"
    /\ claim' = [claim EXCEPT
           ![c].st = "refresh",
           ![c].toasts = Append(@, ClaimToast("success",
                            SuccessTitle(claim[c].kind), "Signature"))]
    /\ feesLoading' = IF claim[c].kind = "admin" THEN TRUE ELSE feesLoading
    /\ creatorLoading' = IF claim[c].kind = "creator" THEN TRUE ELSE creatorLoading
    /\ UNCHANGED <<fees, claiming, creatorClaiming>>

\* the fetch that follows a claim is answered (list) or fails (keep): its
\* finally sets loading false, then the finally of claimFees resets claiming
ClaimRefreshed(c, list, keep) ==
    /\ UNCHANGED outsideClaim
    /\ claim[c].st = "refresh"
    /\ claim' = [claim EXCEPT ![c].st = "ok"]
    /\ fees' = IF claim[c].kind = "admin" /\ ~keep THEN list ELSE fees
    /\ feesLoading' = IF claim[c].kind = "admin" THEN FALSE ELSE feesLoading
    /\ creatorLoading' = IF claim[c].kind = "creator" THEN FALSE ELSE creatorLoading
    /\ ClaimingReset(claim[c].kind)

\* the fee lists used where single claims are looked at: pools A and B
ClaimFeeLists == {SubSeq(MixedFees, 1, 2)}

ClaimInit ==
    /\ claiming = NoPool
    /\ claim = [c \in ClaimIds |-> NoClaim]
    /\ creatorClaiming = FALSE
    /\ creatorLoading = FALSE

\* the dashboard's fetches and the single claims of both pages
ClaimNext ==
    \/ RefreshData
    \/ \E list \in ClaimFeeLists : FeesLoaded(list)
    \/ FeesFailed
    \/ \E c \in ClaimIds, i \in 1..2 : AdminClaimClick(c, i)
    \/ \E c \in ClaimIds : CreatorClaimClick(c)
    \/ \E c \in ClaimIds : ClaimDraftOk(c)
    \/ \E c \in ClaimIds : ClaimSignOk(c)
    \/ \E c \in ClaimIds : ClaimSubmitOk(c)
    \/ \E c \in ClaimIds, step \in {"draft", "sign", "submit"},
          message \in {NetworkError, WalletError, NonError, SendError,
                       DraftError("admin"), DraftError("creator")} :
          ClaimThrows(c, step, message)
    \/ \E c \in ClaimIds, list \in ClaimFeeLists, keep \in BOOLEAN :
          ClaimRefreshed(c, list, keep)

\* the dashboard with its batch and its single claims together; of the
\* failures, the wallet's refusal to sign
DashboardNext ==
    \/ RefreshData
    \/ \E list \in ClaimFeeLists : FeesLoaded(list)
    \/ ClaimAllClick
    \/ \E k \in Records : DraftOk(k)
    \/ \E k \in Records : SignOk(k)
    \/ \E k \in Records : SignFail(k)
    \/ \E k \in Records : SubmitOk(k)
    \/ \E c \in ClaimIds, i \in 1..2 : AdminClaimClick(c, i)
    \/ \E c \in ClaimIds : ClaimDraftOk(c)
    \/ \E c \in ClaimIds : ClaimSignOk(c)
    \/ \E c \in ClaimIds : ClaimSubmitOk(c)
    \/ \E c \in ClaimIds : ClaimThrows(c, "sign", WalletError)
    \/ \E c \in ClaimIds, list \in ClaimFeeLists : ClaimRefreshed(c, list, FALSE)

\* the server and the browsers that are not modelled
ServerNext ==
    \/ \E r \in ReqIds, m \in Methods : OtherRequest(r, m)
    \/ \E r \in ReqIds, raw \in RemoteLists : PoolsResolve(r, raw)
    \/ \E r \in ReqIds : PoolsReject(r)
    \/ \E r \in ReqIds : MetaSettle(r, SUBSET (1..Len(req[r].rawPools)))
    \/ \E r \in ReqIds : OtherReceive(r)
    \/ \E d \in TickSteps : Tick(d)

\* one browser and the server, where every metadata lookup succeeds (the
\* lookups that fail are in ServerNext)
CacheNext ==
    \/ \E r \in ReqIds, raw \in BrowserLists : PoolsResolve(r, raw)
    \/ \E r \in ReqIds : PoolsReject(r)
    \/ \E r \in ReqIds : MetaSettle(r, {1..Len(req[r].rawPools)})
    \/ \E r \in ReqIds : OtherReceive(r)
    \/ PageLoad
    \/ ProviderLoad
    \/ PageMount
    \/ Render
    \/ Remount
    \/ Refresh
    \/ \E r \in ReqIds : FetchOk(r)
    \/ \E r \in ReqIds : FetchFail(r)
    \/ \E d \in TickSteps : Tick(d)

\* ------------------------------------------------------------------------
\* API routes: pages/api/user, pages/api/creator, pages/api/admin
\* ------------------------------------------------------------------------
Endpoints == {"user/get-balance", "user/get-tokens", "creator/get-fees",
              "admin/address", "admin/claim-fees", "creator/claim-fees",
              "admin/get-fees"}

\* the values of a body field or of an environment variable
Undefined == "<undefined>"
Empty == ""
AdminKey == "Admin"
OtherKey == "Other"
PoolKey == "Pool"
NotAKey == "not-base58"

\* !value
Falsy(v) == v \in {Undefined, Empty}
\* new PublicKey(v) returns; it throws for the other values
IsPublicKey(v) == v \in {AdminKey, OtherKey, PoolKey}

\* req.body as the body parser leaves it: null for the JSON text null, a
\* string for a request without a JSON content type, else an object
NullBody == [kind |-> "null"]
TextBody == [kind |-> "text"]
ObjectBody(address, poolAddress, payerAddress, creatorAddress, base, quote) ==
    [kind |-> "object", address |-> address, poolAddress |-> poolAddress,
     payerAddress |-> payerAddress, creatorAddress |-> creatorAddress,
     maxBaseAmount |-> base, maxQuoteAmount |-> quote]

\* const { ... } = req.body throws a TypeError for null (and undefined)
Destructures(body) == body.kind # "null"
\* the value a destructuring binds to name
Field(body, name) == IF body.kind = "object" THEN body[name] ELSE Undefined

Amounts == {Undefined, "1"}

\* the bodies sent to each route
Bodies(ep) ==
    {NullBody, TextBody} \cup
    CASE ep \in {"user/get-balance", "user/get-tokens"} ->
           {ObjectBody(a, Undefined, Undefined, Undefined, Undefined, Undefined) :
              a \in {Undefined, Empty, OtherKey, NotAKey}}
      [] ep = "creator/get-fees" ->
           {ObjectBody(Undefined, p, Undefined, Undefined, Undefined, Undefined) :
              p \in {Undefined, PoolKey, NotAKey}}
      [] ep = "admin/claim-fees" ->
           {ObjectBody(Undefined, p, w, Undefined, b, q) :
              p \in {Undefined, PoolKey, NotAKey},
              w \in {Undefined, AdminKey, OtherKey, NotAKey},
              b \in Amounts, q \in Amounts}
      [] ep = "creator/claim-fees" ->
           {ObjectBody(Undefined, p, Undefined, w, b, q) :
              p \in {Undefined, PoolKey, NotAKey},
              w \in {Undefined, OtherKey, NotAKey},
              b \in Amounts, q \in Amounts}
      [] OTHER -> {}

\* process.env
Envs == [RPC_URL : BOOLEAN, POOL_CONFIG_KEY : BOOLEAN,
         ADMIN_ADDRESS : {Undefined, AdminKey, NotAKey}]

OkResponse == [status |-> 200, error |-> NoError]
MethodNotAllowed == ErrorResponse(405, "Method not allowed")
ConfigurationError == ErrorResponse(500, "Server configuration error")

\* the error of the 500 response of each route's catch block
FailureMessage(ep) ==
    CASE ep = "user/get-balance" -> "Failed to fetch balance"
      [] ep = "user/get-tokens" -> "Failed to fetch tokens"
      [] ep = "creator/get-fees" -> "Failed to fetch creator fees"
      [] ep = "admin/claim-fees" -> "Failed to create claim transaction"
      [] ep = "creator/claim-fees" -> "Failed to create creator claim transaction"
      [] ep = "admin/get-fees" -> "Failed to fetch fees"
      [] OTHER -> "none"
Failure(ep) == ErrorResponse(500, FailureMessage(ep))

\* the remote calls a route awaits, in order
Chain(ep) ==
    CASE ep = "user/get-balance" -> <<"getBalance">>
      [] ep = "user/get-tokens" -> <<"getParsedTokenAccountsByOwner", "getAsset">>
      [] ep = "creator/get-fees" -> <<"getPoolByBaseMint", "getPoolFeeMetrics">>
      [] ep = "admin/claim-fees" -> <<"claimPartnerTradingFee", "getLatestBlockhash">>
      [] ep = "creator/claim-fees" ->
           <<"getPoolByBaseMint", "claimCreatorTradingFee", "getLatestBlockhash">>
      [] ep = "admin/get-fees" -> <<"getPoolsFeesByConfig">>
      [] OTHER -> <<>>

\* what the synchronous part of a handler comes to: a response, an
\* exception that leaves the handler, or its first await
Respond(r) == [to |-> "respond", resp |-> r]
Escapes == [to |-> "escape", resp |-> NoResp]
Awaits == [to |-> "await", resp |-> NoResp]

\* the mutant of the order of the two checks: configuration first
FirstFailedCheckConfigFirst(noAddress, noRpc) ==
    IF noRpc THEN "config" ELSE IF noAddress THEN "address" ELSE "none"
\* if (!address) ... if (!RPC_URL) ...
FirstFailedCheck(noAddress, noRpc) ==
    IF noAddress THEN "address" ELSE IF noRpc THEN "config" ELSE "none"

\* user/get-balance.ts and user/get-tokens.ts, up to the first await
AddressLookup(ep, m, body, e) ==
    IF m # "POST" THEN Respond(MethodNotAllowed)
    ELSE IF ~Destructures(body) THEN Escapes
    ELSE LET address == Field(body, "address")
             failed == FirstFailedCheck(Falsy(address), ~e.RPC_URL) IN
         IF failed = "address" THEN Respond(ErrorResponse(400, "Address is required"))
         ELSE IF failed = "config" THEN Respond(ConfigurationError)
         ELSE IF ~IsPublicKey(address) THEN Respond(Failure(ep))
         ELSE Awaits

\* creator/get-fees.ts, up to the first await
CreatorGetFees(ep, m, body, e) ==
    IF m # "POST" THEN Respond(MethodNotAllowed)
    ELSE IF ~e.RPC_URL THEN Respond(ConfigurationError)
    ELSE IF ~Destructures(body) THEN Respond(Failure(ep))
    ELSE IF Falsy(Field(body, "poolAddress"))
    THEN Respond(ErrorResponse(400, "Token mint address is required"))
    ELSE IF ~IsPublicKey(Field(body, "poolAddress")) THEN Respond(Failure(ep))
    ELSE Awaits

\* the admin address route
AdminAddress(ep, m, body, e) ==
    IF m # "GET" THEN Respond(MethodNotAllowed)
    ELSE IF Falsy(e.ADMIN_ADDRESS)
    THEN Respond(ErrorResponse(500, "Admin address not configured"))
    ELSE Respond(OkResponse)

\* the mutant of the authorization test: every payer passes
IsAuthorizedAnyone(feeClaimerAddress, payerAddress) == TRUE
\* !(feeClaimerAddress !== payerAddress)
IsAuthorized(feeClaimerAddress, payerAddress) == feeClaimerAddress = payerAddress

\* !poolAddress || !who || maxBaseAmount === undefined || maxQuoteAmount === undefined
MissingFields(body, who) ==
    \/ Falsy(Field(body, "poolAddress"))
    \/ Falsy(Field(body, who))
    \/ Field(body, "maxBaseAmount") = Undefined
    \/ Field(body, "maxQuoteAmount") = Undefined

\* the admin claim-fees route, up to the first await
AdminClaimFees(ep, m, body, e) ==
    IF m # "POST" THEN Respond(MethodNotAllowed)
    ELSE IF ~e.RPC_URL THEN Respond(ConfigurationError)
    ELSE IF Falsy(e.ADMIN_ADDRESS) THEN Respond(ConfigurationError)
    ELSE IF ~Destructures(body) THEN Respond(Failure(ep))
    ELSE IF MissingFields(body, "payerAddress")
    THEN Respond(ErrorResponse(400, "Missing required fields"))
    ELSE IF \/ ~IsPublicKey(Field(body, "poolAddress"))
            \/ ~IsPublicKey(e.ADMIN_ADDRESS)
            \/ ~IsPublicKey(Field(body, "payerAddress"))
    THEN Respond(Failure(ep))
    ELSE IF ~IsAuthorized(e.ADMIN_ADDRESS, Field(body, "payerAddress"))
    THEN Respond(ErrorResponse(403, "Unauthorized: Only admin can claim fees"))
    ELSE Awaits

\* creator/claim-fees.ts, up to the first await
CreatorClaimFees(ep, m, body, e) ==
    IF m # "POST" THEN Respond(MethodNotAllowed)
    ELSE IF ~e.RPC_URL THEN Respond(ConfigurationError)
    ELSE IF ~Destructures(body) THEN Respond(Failure(ep))
    ELSE IF MissingFields(body, "creatorAddress")
    THEN Respond(ErrorResponse(400, "Missing required fields"))
    ELSE IF \/ ~IsPublicKey(Field(body, "poolAddress"))
            \/ ~IsPublicKey(Field(body, "creatorAddress"))
    THEN Respond(Failure(ep))
    ELSE Awaits

\* the mutant of the configuration test: only RPC_URL is looked at
ConfigMissingRpcOnly(e) == ~e.RPC_URL
\* !RPC_URL || !POOL_CONFIG_KEY
ConfigMissing(e) == ~e.RPC_URL \/ ~e.POOL_CONFIG_KEY

\* admin/get-fees.ts, up to the first await
AdminGetFees(ep, m, body, e) ==
    IF m # "GET" THEN Respond(MethodNotAllowed)
    ELSE IF ConfigMissing(e) THEN Respond(ConfigurationError)
    ELSE Awaits

Handler(ep, m, body, e) ==
    CASE ep \in {"user/get-balance", "user/get-tokens"} -> AddressLookup(ep, m, body, e)
      [] ep = "creator/get-fees" -> CreatorGetFees(ep, m, body, e)
      [] ep = "admin/address" -> AdminAddress(ep, m, body, e)
      [] ep = "admin/claim-fees" -> AdminClaimFees(ep, m, body, e)
      [] ep = "creator/claim-fees" -> CreatorClaimFees(ep, m, body, e)
      [] ep = "admin/get-fees" -> AdminGetFees(ep, m, body, e)

\* a handler run: the request, the remote calls made so far, the responses
\* sent so far, and where the run is (free, await, done, escaped)
NoRun == [st |-> "free", endpoint |-> "none", method |-> "GET", body |-> TextBody,
          calls |-> <<>>, sent |-> <<>>]

\* what a remote call resolves with: getPoolByBaseMint may resolve with null,
\* the token accounts may be none
Resolutions(call) ==
    CASE call = "getPoolByBaseMint" -> {"value", "null"}
      [] call = "getParsedTokenAccountsByOwner" -> {"value", "none"}
      [] OTHER -> {"value"}

Awaited == api.calls[Len(api.calls)]

\* the run answers r and returns
Answer(r) == api' = [api EXCEPT !.st = "done", !.sent = Append(api.sent, r)]

\* a request arrives and the handler runs up to its first await
ApiRequest(ep, m, body) ==
    /\ api.st = "free"
    /\ LET out == Handler(ep, m, body, env)
           run == [NoRun EXCEPT !.endpoint = ep, !.method = m, !.body = body] IN
       api' = CASE out.to = "respond" -> [run EXCEPT !.st = "done", !.sent = <<out.resp>>]
                [] out.to = "escape" -> [run EXCEPT !.st = "escaped"]
                [] out.to = "await" -> [run EXCEPT !.st = "await",
                                                   !.calls = <<Chain(ep)[1]>>]
    /\ UNCHANGED <<env, outsideApi>>

\* the awaited call resolves: the handler goes on to its next await or
\* answers 200; if (!poolState) throw ... is answered by the catch block
ApiResolve(value) ==
    /\ api.st = "await"
    /\ value \in Resolutions(Awaited)
    /\ LET k == Len(api.calls) IN
       IF value = "null" THEN Answer(Failure(api.endpoint))
       ELSE IF value = "none" \/ k = Len(Chain(api.endpoint)) THEN Answer(OkResponse)
       ELSE api' = [api EXCEPT !.calls = Append(api.calls, Chain(api.endpoint)[k + 1])]
    /\ UNCHANGED <<env, outsideApi>>

\* the awaited call rejects: the catch block answers 500; a metadata lookup
\* of the token list has a catch of its own and the list is still answered
ApiReject ==
    /\ api.st = "await"
    /\ IF Awaited = "getAsset" THEN Answer(OkResponse)
       ELSE Answer(Failure(api.endpoint))
    /\ UNCHANGED <<env, outsideApi>>

\* the run is over
ApiDone ==
    /\ api.st \in {"done", "escaped"}
    /\ api' = NoRun
    /\ UNCHANGED <<env, outsideApi>>

ApiInit ==
    /\ env \in Envs
    /\ api = NoRun

\* no request to the routes, where they are not looked at
ApiIdle ==
    /\ env = [RPC_URL |-> cfgOk, POOL_CONFIG_KEY |-> cfgOk, ADMIN_ADDRESS |-> AdminKey]
    /\ api = NoRun

\* the module constants of get-all.ts are read from the same environment
EnvAgrees == cfgOk = (env.RPC_URL /\ env.POOL_CONFIG_KEY)

ApiNext ==
    \/ \E ep \in Endpoints, m \in Methods : \E body \in Bodies(ep) : ApiRequest(ep, m, body)
    \/ \E value \in {"value", "null", "none"} : ApiResolve(value)
    \/ ApiReject
    \/ ApiDone

\* the pools listing and the fee metrics route
ConfigNext ==
    \/ \E r \in ReqIds, m \in Methods : OtherRequest(r, m)
    \/ \E r \in ReqIds, raw \in RemoteLists : PoolsResolve(r, raw)
    \/ \E r \in ReqIds : PoolsReject(r)
    \/ \E r \in ReqIds : MetaSettle(r, SUBSET (1..Len(req[r].rawPools)))
    \/ \E r \in ReqIds : OtherReceive(r)
    \/ \E d \in TickSteps : Tick(d)
    \/ \E m \in Methods : ApiRequest("admin/get-fees", m, TextBody)
    \/ \E value \in {"value"} : ApiResolve(value)
    \/ ApiReject
    \/ ApiDone

\* the caches at rest, where only the dashboard is looked at
CacheIdle ==
    /\ CacheInit
    /\ cfgOk
    /\ quotaOk
    /\ localStorage = NoSlot

vars == <<cacheVars, adminVars, claimVars, viewVars, apiVars>>
Init == CacheInit /\ AdminInit /\ ClaimInit /\ ViewInit /\ ApiIdle
Next == CacheNext
Spec == Init /\ [][Next]_vars
SpecServer == Init /\ [][ServerNext]_vars
InitAdmin == CacheIdle /\ AdminInit /\ ClaimInit /\ ViewInit /\ ApiIdle
SpecAdmin == InitAdmin /\ [][AdminNext]_vars
SpecClaim == InitAdmin /\ [][ClaimNext]_vars
SpecTotals == InitAdmin /\ [][TotalsNext]_vars
SpecDashboard == InitAdmin /\ [][DashboardNext]_vars
\* every awaited call that does not hang returns
SpecBatch == InitAdmin /\ [][BatchNext]_vars /\ WF_vars(Returns)
InitApi ==
    /\ CacheInit /\ quotaOk /\ localStorage = NoSlot
    /\ AdminInit /\ ClaimInit /\ ViewInit /\ ApiInit /\ EnvAgrees
SpecApi == InitApi /\ [][ApiNext]_vars
\* the admin address and the browser play no part in the two routes
InitConfig == InitApi /\ env.ADMIN_ADDRESS = AdminKey
SpecConfig == InitConfig /\ [][ConfigNext]_vars

\* ------------------------------------------------------------------------
\* Properties
\* ------------------------------------------------------------------------
\* the handler runs, in this step, for a GET that arrives in slot r
Arrives(r) ==
    /\ req[r].st = "free"
    /\ req'[r].st \in {"awaitPools", "responded"}
    /\ req'[r].method = "GET"

\* the stored entry is within its TTL, written out in milliseconds
WithinTTL == cachedData.kind = "entry" /\ now - cachedData.timestamp < 60000

\* the handler of r, having awaited the metadata, writes and answers
Writes(r) == req[r].st = "awaitMeta" /\ req'[r].st = "responded"

\* C1: a GET arriving while an entry exists with now - timestamp < 60,000 ms
\* is answered 200 with exactly the stored pools and cached = true, makes
\* no getPoolsByConfig and no getAsset call, and leaves the entry unchanged.
C1_CacheHit ==
    [][\A r \in ReqIds :
         (Arrives(r) /\ WithinTTL) =>
            /\ req'[r].st = "responded"
            /\ req'[r].resp.status = 200
            /\ req'[r].resp.pools = cachedData.pools
            /\ req'[r].resp.cached = TRUE
            /\ req'[r].poolsCalls = 0
            /\ req'[r].assetCalls = 0
            /\ cachedData' = cachedData]_vars

\* a request was answered from an entry 59,999 ms old
C1_Witness ==
    \E r \in ReqIds :
        /\ req[r].st = "responded"
        /\ req[r].resp.status = 200
        /\ req[r].resp.cached
        /\ req[r].resp.cacheAge = 59
        /\ req[r].poolsCalls = 0

\* no request makes a second getPoolsByConfig call
OnePoolsCall ==
    \A r \in ReqIds :
        /\ req'[r].poolsCalls <= 1
        /\ (req[r].st # "free" /\ req'[r].st # "free")
              => req'[r].poolsCalls = req[r].poolsCalls

\* a successful fetch stores the answered payload with the time of the write
WriteReplaces ==
    \A r \in ReqIds :
        Writes(r) =>
            /\ req'[r].resp.status = 200
            /\ req'[r].resp.cached = FALSE
            /\ cachedData' = Entry(req'[r].resp.pools, now)

\* C2 as stated: every GET that finds no entry, or one with
\* now - timestamp >= 60,000 ms, invokes getPoolsByConfig exactly once and,
\* when that succeeds, replaces the entry (payload, time of the write) and
\* answers cached = false.
C2_Original ==
    [][/\ \A r \in ReqIds :
            (Arrives(r) /\ ~WithinTTL) =>
                req'[r].st = "awaitPools" /\ req'[r].poolsCalls = 1
       /\ OnePoolsCall
       /\ WriteReplaces]_vars

\* C2 as amended: the same, for a server on which RPC_URL and
\* POOL_CONFIG_KEY are both set; without them the miss is answered 500 with
\* no remote call.
C2_CacheMiss ==
    [][/\ \A r \in ReqIds :
            (Arrives(r) /\ ~WithinTTL) =>
                IF cfgOk
                THEN /\ req'[r].st = "awaitPools"
                     /\ req'[r].poolsCalls = 1
                     /\ cachedData' = cachedData
                ELSE /\ req'[r].resp.status = 500
                     /\ req'[r].poolsCalls = 0
       /\ OnePoolsCall
       /\ WriteReplaces]_vars

\* a request that found an entry exactly 60,000 ms old has fetched and stored
\* a new one
C2_Witness ==
    \E r \in ReqIds :
        /\ req[r].st = "responded"
        /\ req[r].seenTs = 1
        /\ req[r].poolsCalls = 1
        /\ req[r].resp.status = 200
        /\ req[r].resp.cached = FALSE
        /\ cachedData = Entry(req[r].resp.pools, 60001)

\* C3 as stated: every fetchPools(true) leads to a getPoolsByConfig query
\* (read for the requests that reach a configured server).
C3_Original ==
    (lastCall.force /\ lastCall.outcome \notin {"neterr", "cfgerr"})
        => lastCall.outcome = "miss"

\* C3 as amended: every fetchPools(true) issues the HTTP request to
\* /api/pools/get-all, whatever the freshness of the client entry; the
\* request is never skipped.
C3_ForcedRequest ==
    lastCall.force => lastCall.outcome \in {"hit", "miss", "cfgerr", "neterr"}

\* a forced refresh, made while the client entry and the server entry were
\* both fresh, was answered from the server cache
C3_Witness ==
    /\ lastCall.force
    /\ lastCall.outcome = "hit"
    /\ Truthy(closure)
    /\ now - closure < 60000

\* the fetch of slot r fails on the client in this step
ClientFails(r) ==
    /\ req[r].owner = "client"
    /\ \/ req[r].st = "neterr"
       \/ req[r].st = "responded" /\ req[r].resp.status # 200
    /\ req'[r].st = "free"
    /\ effects' = {}

\* C4: a failed refresh reports an error and leaves the cache as it was: on
\* the server (getPoolsByConfig throws) the answer is 500 and cachedData is
\* unchanged; on the client (the request throws or is not OK) error is set
\* and pools, lastFetch and the persisted slot are unchanged.
C4_FailedRefresh ==
    [][\A r \in ReqIds :
         /\ (req[r].st = "awaitPools" /\ req'[r].st = "responded") =>
               /\ req'[r].resp.status = 500
               /\ cachedData' = cachedData
         /\ ClientFails(r) =>
               /\ error' # NoError
               /\ pools' = pools
               /\ lastFetch' = lastFetch
               /\ localStorage' = localStorage]_vars

\* a refresh has failed on the server and on the client while entries exist
C4_Witness ==
    /\ error = "Failed to fetch pools"
    /\ ~loading
    /\ cachedData.kind = "entry"
    /\ Truthy(lastFetch)
    /\ pools # <<>>
    /\ localStorage.kind = "json"

\* C5: requests arriving while the cache is empty or stale are not coalesced
\* and not excluded: one that arrives while another is in flight queries
\* the remote source too, and each write replaces the entry whatever was
\* written since the request read the cache (the last write wins).
C5_RefreshRace ==
    [][\A r \in ReqIds :
         /\ (/\ Arrives(r)
             /\ ~WithinTTL
             /\ cfgOk
             /\ \E q \in ReqIds : req[q].st \in {"awaitPools", "awaitMeta"})
              => req'[r].poolsCalls = 1
         /\ (Writes(r) /\ SeenTimestamp(cachedData) # req[r].seenTs)
              => /\ cachedData'.pools = req'[r].resp.pools
                 /\ cachedData'.timestamp = now]_vars

\* two requests both found the cache empty, both queried the remote source
\* and both wrote; the entry is the payload of one, not of the other
C5_Witness ==
    \E r, q \in ReqIds :
        /\ r # q
        /\ req[r].st = "responded" /\ req[q].st = "responded"
        /\ req[r].seenTs = Null /\ req[q].seenTs = Null
        /\ req[r].poolsCalls = 1 /\ req[q].poolsCalls = 1
        /\ req[r].resp.status = 200 /\ req[q].resp.status = 200
        /\ req[r].resp.pools # req[q].resp.pools
        /\ cachedData.pools = req[r].resp.pools

\* C6: on a page load with a slot whose entry is less than 60,000 ms old,
\* the page's initial fetchPools() is served from that entry and issues no
\* HTTP request, whichever of the two mount effects runs first.
C6_Original ==
    (lastCall.trigger = "mount" /\ lastCall.slotFresh)
        => lastCall.outcome = "skip"

\* ------------------------------------------------------------------------
\* Properties of the admin dashboard
\* ------------------------------------------------------------------------
Terminal == {"ok", "failDraft", "failSign", "failSubmit"}
CallsOf(op, k) == Cardinality({i \in 1..Len(calls) : calls[i] = <<op, k>>})
Quote(f) == BN(f.partnerQuoteFee)
Lamports(c) == c * 10000000
Eligible(fs, c) == {i \in 1..Len(fs) : Quote(fs[i]) >= Lamports(c)}

\* C7: partial-failure tolerance of claimAllFees: no record's claim is
\* started twice, and when the call has ended every selected record's claim
\* has been started exactly once and has ended, whatever step of an earlier
\* record failed (a record whose draft failed was never signed, one whose
\* signature failed was never submitted); successCount + failCount is the
\* number of eligible records, and successCount is the number of records
\* whose three steps all succeeded.
C7_PartialFailure ==
    /\ \A k \in 1..Len(pipe) : CallsOf("draft", k) <= 1
    /\ batch = "done" =>
         /\ Len(pipe) = Cardinality(Eligible(batchFees, batchThreshold))
         /\ \A k \in 1..Len(pipe) :
              /\ pipe[k] \in Terminal
              /\ CallsOf("draft", k) = 1
              /\ CallsOf("sign", k) = (IF pipe[k] = "failDraft" THEN 0 ELSE 1)
              /\ CallsOf("submit", k) =
                   (IF pipe[k] \in {"ok", "failSubmit"} THEN 1 ELSE 0)
         /\ successCount + failCount =
              Cardinality(Eligible(batchFees, batchThreshold))
         /\ successCount = Cardinality({k \in 1..Len(pipe) : pipe[k] = "ok"})

\* three eligible records, the second one's submit failed: 2 and 1
C7_Witness ==
    /\ batch = "done"
    /\ pipe = <<"ok", "failSubmit", "ok">>
    /\ successCount = 2
    /\ failCount = 1

Drafts == SelectSeq(calls, LAMBDA c : c[1] = "draft")

\* C8: sequential batch: at no time are two records' claims of a batch in
\* flight, the draft request of record k+1 is issued only when the claim of
\* record k has ended (submitted, or failed at one of its steps), and the
\* records are taken in the order of the fee list: the selection is a
\* subsequence of the fee list and the draft requests go through it from
\* first to last.
C8_Sequential ==
    /\ Cardinality({k \in 1..Len(pipe) : pipe[k] \notin Terminal \cup {"todo"}}) <= 1
    /\ \A k \in 1..(Len(pipe) - 1) : pipe[k + 1] # "todo" => pipe[k] \in Terminal
    /\ \A i \in 1..Len(Drafts) : Drafts[i][2] = i
    /\ \E at \in [1..Len(poolsWithFees) -> 1..Len(batchFees)] :
         /\ \A i \in 1..Len(poolsWithFees) : poolsWithFees[i] = batchFees[at[i]]
         /\ \A i \in 1..(Len(poolsWithFees) - 1) : at[i] < at[i + 1]

\* the first record's draft failed, the second is being submitted, the third
\* has not been started
C8_Witness ==
    /\ batch = "running"
    /\ pipe = <<"failDraft", "submit", "todo">>

\* C9: empty batch: after a click on Claim All with no fee record at or over
\* the threshold, no draft, sign or submit call has been made, claimingAll is
\* false, and the only notification is the one saying there is nothing to
\* claim: no summary of successes or failures.
C9_EmptyBatch ==
    (batch # "none" /\ Eligible(batchFees, batchThreshold) = {}) =>
        /\ batch = "empty"
        /\ ~claimingAll
        /\ calls = <<>>
        /\ toasts = <<Toast("info", "No fees to claim", batchThreshold)>>
        /\ successCount = 0
        /\ failCount = 0

\* two records, both under the threshold of 0.1 SOL
C9_Witness ==
    /\ batch = "empty"
    /\ Len(batchFees) >= 2
    /\ batchThreshold = 10
    /\ toasts # <<>>

\* C10: eligibility: the records of a batch are those fee records whose
\* partnerQuoteFee, as an integer, is at least the threshold in lamports,
\* whatever their other fees; draft requests are made for records of the
\* batch only and, when the call has ended, for each of them.  With threshold
\* 0 every record is selected; with threshold 100,000,000 a record of
\* 50,000,000 is not and one of 100,000,000 or 200,000,000 is.
C10_Eligibility ==
    batch # "none" =>
        /\ Len(poolsWithFees) = Cardinality(Eligible(batchFees, batchThreshold))
        /\ {poolsWithFees[j] : j \in 1..Len(poolsWithFees)} =
             {batchFees[i] : i \in Eligible(batchFees, batchThreshold)}
        /\ \A i \in 1..Len(calls) : calls[i][2] \in 1..Len(poolsWithFees)
        /\ batch = "done" =>
             {Drafts[i][2] : i \in 1..Len(Drafts)} = 1..Len(poolsWithFees)
        /\ batchThreshold = 0 => poolsWithFees = batchFees
        /\ \A i \in 1..Len(batchFees) :
             batchThreshold = 10 =>
               /\ batchFees[i].partnerQuoteFee = Str50M =>
                    \A j \in 1..Len(poolsWithFees) : poolsWithFees[j] # batchFees[i]
               /\ batchFees[i].partnerQuoteFee \in {Str100M, Str200M} =>
                    \E j \in 1..Len(poolsWithFees) : poolsWithFees[j] = batchFees[i]

\* A (50,000,000, with large base and creator fees) and B (200,000,000, with
\* none) at threshold 0.1 SOL: only B was claimed
C10_Witness ==
    /\ batch = "done"
    /\ batchThreshold = 10
    /\ Len(batchFees) = 2
    /\ batchFees[1].partnerQuoteFee = Str50M
    /\ batchFees[2].partnerQuoteFee = Str200M
    /\ Len(poolsWithFees) = 1
    /\ poolsWithFees[1].poolAddress = "B"
    /\ Drafts = <<(<<"draft", 1>>)>>

StepIndex(step) == CHOOSE i \in 1..3 : PipelineSteps[i] = step

\* the steps of call c ran in the order draft, sign, submit, none after one
\* that threw
ShortCircuits(c) ==
    /\ \E n \in 0..3 : claim[c].calls = SubSeq(PipelineSteps, 1, n)
    /\ claim[c].failedAt # "none" =>
         /\ claim[c].st = "failed"
         /\ claim[c].calls = SubSeq(PipelineSteps, 1, StepIndex(claim[c].failedAt))

\* a failed call c showed one notification, an error with the message of the
\* error thrown ('Unknown error' when no Error was thrown), and no success
ReportsFailure(c) ==
    claim[c].st = "failed" =>
        claim[c].toasts =
            <<ClaimToast("error", ErrorTitle(claim[c].kind),
                         IF claim[c].message = NonError THEN "Unknown error"
                         ELSE claim[c].message)>>

\* what a failed call c showed cannot be what a failure of another step shows
IdentifiesStep(c) ==
    claim[c].st = "failed" =>
        \A step \in {"draft", "sign", "submit"} \ {claim[c].failedAt} :
            \A m \in Messages(claim[c].kind, step) :
                claim[c].toasts # <<ClaimToast("error", ErrorTitle(claim[c].kind),
                                                ErrorDescription(m))>>

SixFields == {"partnerBaseFee", "partnerQuoteFee", "creatorBaseFee",
              "creatorQuoteFee", "totalTradingBaseFee", "totalTradingQuoteFee"}
FourFields == {"partnerBaseFee", "partnerQuoteFee", "creatorBaseFee",
               "creatorQuoteFee"}

\* the digit of x at position i, counted from the lowest
DigitAt(x, i) == IF i <= Len(x) THEN x[Len(x) + 1 - i] ELSE 0

\* column addition: the digits of one field at position i, added up
RECURSIVE ColumnSum(_, _, _)
ColumnSum(fs, field, i) ==
    IF fs = <<>> THEN 0
    ELSE DigitAt(Head(fs)[field], i) + ColumnSum(Tail(fs), field, i)

RECURSIVE CarryInto(_, _, _)
CarryInto(fs, field, i) ==
    IF i = 1 THEN 0
    ELSE (ColumnSum(fs, field, i - 1) + CarryInto(fs, field, i - 1)) \div 10

Widest(fs, field) ==
    IF fs = <<>> THEN 1
    ELSE CHOOSE w \in {Len(fs[i][field]) : i \in 1..Len(fs)} :
           \A i \in 1..Len(fs) : Len(fs[i][field]) <= w

\* total is the decimal number that column addition of the field gives
IsSumOf(total, fs, field) ==
    /\ Len(total) >= 1
    /\ Len(total) > 1 => total[1] # 0
    /\ \A i \in 1..Len(total) :
         DigitAt(total, i) = (ColumnSum(fs, field, i) + CarryInto(fs, field, i)) % 10
    /\ \A i \in (Len(total) + 1)..(Widest(fs, field) + 2) :
         ColumnSum(fs, field, i) + CarryInto(fs, field, i) = 0

TotalIs(fs, field) ==
    /\ field \in DOMAIN Totals(fs)
    /\ IsSumOf(Totals(fs)[field], fs, field)

\* C13 as stated: the totals of the fee list are the sums of each of the six
\* amount fields, all zero for the empty list.
C13_Original ==
    \A field \in SixFields : TotalIs(fees, field)

\* C13: the totals the dashboard computes from the fee list are the sums of
\* the partner base, partner quote, creator base and creator quote fees over
\* all records, all zero for the empty list; the two total-trading fields
\* have no total.
C13_FeeTotals ==
    /\ DOMAIN Totals(fees) = FourFields
    /\ \A field \in FourFields : TotalIs(fees, field)
    /\ fees = <<>> => \A field \in FourFields : Totals(fees)[field] = <<0>>

\* three records are loaded; the quote fees add up to 350,000,000 and the
\* base fees, with carries, to 1,000,000,000
C13_Witness ==
    /\ Len(fees) = 3
    /\ Totals(fees).partnerQuoteFee = <<3, 5, 0, 0, 0, 0, 0, 0, 0>>
    /\ Totals(fees).partnerBaseFee = <<1, 0, 0, 0, 0, 0, 0, 0, 0, 0>>

Permuted(fs, p) == [i \in 1..Len(fs) |-> fs[p[i]]]

\* C14: the totals do not depend on the order of the records: every
\* permutation of the fee list has the same totals.
C14_OrderIndependent ==
    \A p \in Permutations(1..Len(fees)) : Totals(Permuted(fees, p)) = Totals(fees)

\* three records with different amounts are loaded
C14_Witness ==
    /\ Len(fees) = 3
    /\ fees[1].partnerQuoteFee # fees[2].partnerQuoteFee
    /\ fees[2].partnerQuoteFee # fees[3].partnerQuoteFee
    /\ Totals(Permuted(fees, <<3, 1, 2>>)) = Totals(fees)

\* C15 as stated: the totals are exact also from 2^53 on, and the dashboard
\* gets from the fetched strings to what it shows without a failure and
\* without rounding.
C15_Original ==
    /\ \A field \in FourFields : TotalIs(fees, field)
    /\ cards.st = "shown"
    /\ Rounded \notin {cards.partnerQuoteFee, cards.partnerBaseFee,
                       cards.creatorQuoteFee}

\* ------------------------------------------------------------------------
\* Properties of the API routes
\* ------------------------------------------------------------------------
\* the run has made the remote call
Called(call) == \E i \in 1..Len(api.calls) : api.calls[i] = call
\* the run has answered with this status
Answered(status) == api.st = "done" /\ api.sent[1].status = status

AdminClaim == api.st # "free" /\ api.endpoint = "admin/claim-fees"
Payer == Field(api.body, "payerAddress")
\* the request passes the test of the required fields
HasRequiredFields == Destructures(api.body) /\ ~MissingFields(api.body, "payerAddress")
\* a request with all required fields whose payer is not the admin
OtherPayer == AdminClaim /\ HasRequiredFields /\ Payer # env.ADMIN_ADDRESS
NoClaimCall == ~Called("claimPartnerTradingFee") /\ ~Called("getLatestBlockhash")
Unauthorized == ErrorResponse(403, "Unauthorized: Only admin can claim fees")

\* C16 as stated, for a POST to a configured server: 200 only for the
\* admin, and every request with all required fields and another payer is
\* answered 403 without a claim or blockhash call
C16_Original ==
    /\ AdminClaim /\ Answered(200) => Payer = env.ADMIN_ADDRESS
    /\ (OtherPayer /\ api.method = "POST" /\ env.RPC_URL /\ ~Falsy(env.ADMIN_ADDRESS)) =>
          /\ api.sent = <<Unauthorized>>
          /\ NoClaimCall

\* C16: the admin claim route answers 200 only when payerAddress is the
\* configured ADMIN_ADDRESS; a request with all required fields and another
\* payer never reaches claimPartnerTradingFee or getLatestBlockhash, and is
\* answered 403 exactly when it is a POST to a configured server and
\* poolAddress, ADMIN_ADDRESS and payerAddress all parse as public keys;
\* otherwise it is answered 405 or 500
C16_Authorization ==
    /\ AdminClaim /\ Answered(200) => Payer = env.ADMIN_ADDRESS
    /\ OtherPayer =>
          /\ NoClaimCall
          /\ api.st = "done"
          /\ Len(api.sent) = 1
          /\ IF api.method # "POST" THEN api.sent[1].status = 405
             ELSE IF ~env.RPC_URL \/ Falsy(env.ADMIN_ADDRESS)
                     \/ ~IsPublicKey(Field(api.body, "poolAddress"))
                     \/ ~IsPublicKey(env.ADMIN_ADDRESS)
                     \/ ~IsPublicKey(Payer)
             THEN api.sent[1].status = 500
             ELSE api.sent = <<Unauthorized>>

\* another payer has been refused
C16_Witness == OtherPayer /\ api.sent = <<Unauthorized>>

\* RPC_URL or POOL_CONFIG_KEY is absent
ConfigAbsent == ~env.RPC_URL \/ ~env.POOL_CONFIG_KEY
\* the GET in slot r of the pools listing has been refused for the
\* configuration, without a remote call
PoolsRefused(r) ==
    /\ req[r].st = "responded"
    /\ req[r].resp = ErrorResponse(500, "Server configuration error")
    /\ req[r].poolsCalls = 0
    /\ req[r].assetCalls = 0
\* the GET of the fee metrics has been refused likewise
FeesRefused ==
    /\ api.st = "done"
    /\ api.sent = <<ConfigurationError>>
    /\ api.calls = <<>>
FeesGet == api.st # "free" /\ api.endpoint = "admin/get-fees" /\ api.method = "GET"

\* C17: when RPC_URL or POOL_CONFIG_KEY is absent, every GET to the pools
\* listing and to the fee metrics route is answered 500 'Server
\* configuration error' without a remote call, and the server pools cache
\* stays empty
C17_MissingConfiguration ==
    ConfigAbsent =>
        /\ cachedData = NoEntry
        /\ \A r \in ReqIds :
              (req[r].st # "free" /\ req[r].method = "GET") => PoolsRefused(r)
        /\ FeesGet => FeesRefused

\* both routes have refused a GET on a server without POOL_CONFIG_KEY
C17_Witness ==
    /\ env.RPC_URL /\ ~env.POOL_CONFIG_KEY
    /\ FeesGet /\ FeesRefused
    /\ \E r \in ReqIds : req[r].method = "GET" /\ PoolsRefused(r)

\* a handler run that is over
Over == api.st \in {"done", "escaped"}
Statuses == {200, 400, 403, 405, 500}

\* C18: every handler run, for every method, body and remote outcome, ends
\* with exactly one JSON response whose status is 200, 400, 403, 405 or
\* 500, and no exception leaves the handler
C18_Original ==
    /\ api.st # "escaped"
    /\ Over => Len(api.sent) = 1 /\ api.sent[1].status \in Statuses
    /\ \A r \in ReqIds : req[r].st = "responded" => req[r].resp.status \in Statuses

Fetched(r) == req[r].st = "awaitMeta" /\ req'[r].st = "responded"
\* this step hands the OK response of slot r to fetchPools
Received(r) ==
    /\ req[r].owner = "client" /\ req[r].st = "responded" /\ req[r].resp.status = 200
    /\ req'[r] = FreeSlot
    /\ page' = "open" /\ effects' = {}
\* this step loads a document: React state starts from its initial values
Loads == effects' = {"provider", "page"} /\ effects # effects'

\* server: an entry is never cleared, and is replaced, payload and timestamp
\* at once, exactly by the handlers that fetched
ServerLifecycle ==
    /\ cachedData.kind = "entry" => cachedData'.kind = "entry"
    /\ \A r \in ReqIds : Fetched(r) => cachedData' = Entry(req'[r].resp.pools, now)
    /\ cachedData' # cachedData => \E r \in ReqIds : Fetched(r)

\* client: the slot is never removed and is written with the pair the state
\* gets; the state gets both values at once, from a response or from the
\* slot, and is emptied only by a document load
ClientLifecycle ==
    /\ localStorage.kind = "json" => localStorage'.kind = "json"
    /\ localStorage' # localStorage =>
          /\ \E r \in ReqIds : Received(r)
          /\ localStorage' = Stored(pools', lastFetch')
    /\ \A r \in ReqIds : Received(r) =>
          /\ pools' = req[r].resp.pools
          /\ lastFetch' = now
    /\ (pools' # pools \/ lastFetch' # lastFetch) =>
          \/ Loads /\ pools' = <<>> /\ lastFetch' = Null
          \/ \E r \in ReqIds : Received(r)
          \/ /\ localStorage.kind = "json"
             /\ pools' = localStorage.pools
             /\ lastFetch' = localStorage.timestamp

\* C20: each cache scope holds one entry; once stored it is never cleared
\* (the server's cachedData and the storage slot stay, the React state lives
\* as long as its document), and every successful fetch replaces payload and
\* timestamp together
C20_EntryLifecycle == [][ServerLifecycle /\ ClientLifecycle]_vars

\* both scopes hold an entry that replaced an earlier one
C20_Witness ==
    /\ cachedData.kind = "entry" /\ cachedData.timestamp > 1
    /\ localStorage.kind = "json" /\ localStorage.timestamp > 1
    /\ lastFetch = localStorage.timestamp
    /\ pools = localStorage.pools

\* ------------------------------------------------------------------------
\* Properties of the client cache
\* ------------------------------------------------------------------------
\* this step is the provider's load on mount
LoadsSlot == "provider" \in effects /\ "provider" \notin effects'
\* this step is a call of fetchPools
CallsFetchPools == lastCall' # lastCall /\ lastCall'.trigger # "none"

\* C21: a slot that cannot be deserialized is a miss: the load on mount
\* leaves pools, lastFetch and error at their initial values and the slot
\* as it is, and the fetchPools(false) that follows, as long as nothing has
\* been fetched, issues its request
C21_LoadFailureIsMiss ==
    [][/\ (LoadsSlot /\ localStorage = Corrupt) =>
             /\ pools' = <<>>
             /\ lastFetch' = Null
             /\ error' = NoError
             /\ localStorage' = Corrupt
       /\ (CallsFetchPools /\ ~lastCall'.force /\ localStorage = Corrupt
              /\ lastFetch = Null) =>
             /\ lastCall'.outcome \in {"hit", "miss", "cfgerr", "neterr"}
             /\ loading']_vars

\* after the load of a corrupt slot the page's fetch went to the server
C21_Witness ==
    /\ localStorage = Corrupt
    /\ page = "open"
    /\ effects = {}
    /\ lastCall.trigger = "mount"
    /\ lastCall.outcome = "miss"
    /\ pools = <<>> /\ lastFetch = Null /\ error = NoError

\* ------------------------------------------------------------------------
\* Properties of the batch's termination
\* ------------------------------------------------------------------------
Hung == {k \in 1..Len(pipe) : pipe[k] = "hung"}
\* claimAllFees has finished: the flag is reset, the summary shown, the
\* refresh issued
BatchOver ==
    /\ batch = "done"
    /\ ~claimingAll
    /\ refreshes = 1
    /\ Summary(successCount, failCount) # <<>>
    /\ SubSeq(toasts, Len(toasts) + 1 - Len(Summary(successCount, failCount)),
              Len(toasts)) = Summary(successCount, failCount)
\* the batch is stuck at the await of a call that does not return
BatchStuck ==
    /\ Hung # {}
    /\ batch = "running"
    /\ claimingAll
    /\ ClaimAllDisabled
    /\ InFlight = {}
    /\ \A k \in Hung, j \in 1..Len(pipe) : j > k => pipe[j] = "todo"

\* C22: claimAllFees has no timeout: a running batch finishes (claimingAll
\* reset, summary shown, refresh issued) when every awaited call returns,
\* and only then; once a call hangs the batch stays running for ever, with
\* claimingAll true, no later record started and Claim All disabled
C22_BatchTermination ==
    /\ (batch = "running") ~> (BatchOver \/ Hung # {})
    /\ [](batch = "done" => (Hung = {} /\ \A k \in 1..Len(pipe) : pipe[k] \in Terminal))
    /\ [](Hung # {} => []BatchStuck)

\* the draft request of the first of two records hangs
C22_Witness ==
    /\ pipe = <<"hung", "todo">>
    /\ calls = <<<<"draft", 1>>>>
    /\ claimingAll

\* ------------------------------------------------------------------------
\* Properties of the pools listing
\* ------------------------------------------------------------------------
\* the handler of slot r answers 200 in this step
Answers200(r) ==
    /\ req[r].st # "responded"
    /\ req'[r].st = "responded"
    /\ req'[r].resp.status = 200

\* C23: every 200 response of the pools listing has count = the length of
\* pools; cacheAge is present exactly when cached is true; and when cached
\* is true, cacheAge = floor((now - timestamp) / 1000), within 0..59
C23_ResponseConsistency ==
    [][\A r \in ReqIds :
         Answers200(r) =>
            LET resp == req'[r].resp IN
            /\ resp.count = Len(resp.pools)
            /\ resp.cached <=> resp.cacheAge # Null
            /\ resp.cached =>
                  /\ cachedData.kind = "entry"
                  /\ resp.cacheAge = (now - cachedData.timestamp) \div 1000
                  /\ resp.cacheAge \in 0..59]_vars

\* one request was answered from an entry 59,999 ms old, another by a fetch
C23_Witness ==
    \E r, q \in ReqIds :
        /\ req[r].st = "responded" /\ req[q].st = "responded"
        /\ req[r].resp.status = 200 /\ req[q].resp.status = 200
        /\ req[r].resp.cached /\ req[r].resp.cacheAge = 59
        /\ req[r].resp.count = 2
        /\ ~req[q].resp.cached /\ req[q].resp.cacheAge = Null

\* ------------------------------------------------------------------------
\* Properties of the dashboard's claims taken together
\* ------------------------------------------------------------------------
\* the single claims of the dashboard that are at a draft, sign or submit call
SinglesInFlight ==
    {c \in ClaimIds : claim[c].kind = "admin" /\ claim[c].st \in {"draft", "sign", "submit"}}
BatchInFlight == batch = "running" /\ InFlight # {}

\* C24: no two claim pipelines of the dashboard are in flight at once: no
\* single claim beside a running batch, and no two single claims
C24_Original ==
    /\ ~(BatchInFlight /\ SinglesInFlight # {})
    /\ Cardinality(SinglesInFlight) <= 1

\* C25: while a single claim for pool P is in flight claiming = P, and
\* claiming is null only when no single claim is in flight
C25_Original ==
    /\ \A c \in SinglesInFlight : claiming = claim[c].pool
    /\ claiming = NoPool => SinglesInFlight = {}

\* ------------------------------------------------------------------------
\* Properties of the two caches together
\* ------------------------------------------------------------------------
\* the client treats its entry as fresh
ClientFresh == Truthy(lastFetch) /\ now - lastFetch < 60000

\* C26: whenever the client treats its entry as fresh, the payload it holds
\* was stored in the server cache less than 60,000 ms ago
C26_Original ==
    (page = "open" /\ ClientFresh) =>
        /\ capturedAt.pools # Null
        /\ now - capturedAt.pools < 60000

\* C27: the server cache never replaces a stored payload with a payload
\* obtained from a query that started earlier than the query that produced
\* the stored payload
C27_Original ==
    [][\A r \in ReqIds : Writes(r) => ~req[r].overtaken]_vars

\* ------------------------------------------------------------------------
\* Properties of the provider's flags and slot
\* ------------------------------------------------------------------------
\* the fetchPools calls of the document whose fetch has not been dealt with
FetchesInFlight == {r \in ReqIds : req[r].owner = "client"}

\* C28: loading is true if and only if at least one fetchPools remote
\* request is in flight
C28_Original ==
    page = "open" => (loading <=> FetchesInFlight # {})

\* the slot holds what the provider's state holds: the same entry, or no
\* readable entry when the state holds none
Agree ==
    IF lastFetch = Null
    THEN pools = <<>> /\ localStorage \in {NoSlot, Corrupt}
    ELSE localStorage = Stored(pools, lastFetch)

\* fetchPools has been called in this document and no fetch is in flight
FetchesOver ==
    /\ page = "open"
    /\ effects = {}
    /\ lastCall # NoCall
    /\ FetchesInFlight = {}

\* C29 as stated: when every storage write succeeds, whenever no fetch is in
\* flight the slot holds exactly the pools and timestamp of the state
C29_Original == (quotaOk /\ FetchesOver) => Agree

\* C29: when every storage write succeeds, whenever the provider's state
\* holds an entry (lastFetch is not null) the slot holds exactly its pools
\* and its timestamp, whether or not a fetch is in flight
C29_SlotAgrees ==
    (page = "open" /\ quotaOk /\ lastFetch # Null) =>
        localStorage = Stored(pools, lastFetch)

\* two fetches of the document were in flight together, the first has been
\* received and stored, the second is still in flight
C29_Witness ==
    /\ page = "open"
    /\ quotaOk
    /\ lastFetch = now
    /\ pools # <<>>
    /\ localStorage = Stored(pools, lastFetch)
    /\ FetchesInFlight # {}
    /\ lastCall.trigger = "remount"

\* ------------------------------------------------------------------------
\* Properties of the metadata lookups
\* ------------------------------------------------------------------------
\* C30: when getPoolsByConfig has succeeded with n pools, whichever metadata
\* lookups fail, the handler answers 200 with n records in the order of the
\* query's result, each with its pool's address and with metadata or null,
\* and stores exactly these records
C30_MetadataIsolated ==
    [][\A r \in ReqIds : Writes(r) =>
          LET raw == req[r].rawPools
              out == req'[r].resp IN
          /\ out.status = 200
          /\ ~out.cached
          /\ out.count = Len(raw)
          /\ Len(out.pools) = Len(raw)
          /\ \A i \in 1..Len(raw) :
                /\ out.pools[i].address = raw[i]
                /\ out.pools[i].metadata \in {"metadata", "null"}
          /\ cachedData'.kind = "entry"
          /\ cachedData'.pools = out.pools]_vars

\* the lookup of the first of two pools failed, the second one's succeeded
C30_Witness ==
    \E r \in ReqIds :
        /\ req[r].st = "responded"
        /\ req[r].resp.status = 200
        /\ ~req[r].resp.cached
        /\ req[r].resp.pools = <<[address |-> "B", metadata |-> "null"],
                                 [address |-> "A", metadata |-> "metadata"]>>
        /\ cachedData = Entry(req[r].resp.pools, now)
====
